---- MODULE Spec2Model ----
(***************************************************************************)
(* tk-proxy: the ingestion server's daily-submit gate (src/src/server.ts), *)
(* the scheduling utility (src/src/schedule.ts) and the merge engine       *)
(* (src/src/merge.ts).                                                     *)
(*                                                                         *)
(* Representation of values:                                               *)
(*  - an instant (a JS Date) is the number of whole hours since the start  *)
(*    of the first modelled UTC day;                                       *)
(*  - a calendar date string "yyyy-mm-dd" is the integer yyyymmdd, whose   *)
(*    numeric order is the lexicographic order of the strings;             *)
(*  - an ISO timestamp string is the record [date, hour] of its fields;    *)
(*  - a JS number that may be fractional is [n, frac], meaning n, or       *)
(*    n + 1/2 when frac;                                                   *)
(*  - null is a reserved value of each field's type (NullDate, ...).       *)
(***************************************************************************)
EXTENDS Integers, Sequences, FiniteSets, TLC

\* ------------------------------------------------------------------------
\* Bounds of the model
\* ------------------------------------------------------------------------

\* last instant the clock reaches
MaxTime == 36
\* hours by which one clock step advances
HourStep == 12
\* number of client ids that upload
MaxClients == 1
\* invocation slots of maybeSubmit
MaxAttempts == 2
\* invocations of the request handler in flight
MaxRequests == 2
\* files opened for writing by the request handler
MaxWrites == 2
\* last instant at which requests are handled
MaxUploadTime == 12
\* files opened for writing when requests of every kind are offered
MaxHttpWrites == 1
\* reports in the list given to combinePayloads
MaxReports == 3
\* characters of the text given to parseDurationMs
MaxDurationLen == 4
\* the greatest baseMs and jitterMs given to computeWaitWithJitterMs
MaxWaitMs == 4
\* the values of random() are the multiples of 1 / RandomSteps in [0, 1)
RandomSteps == 4
\* the longest list of arguments after the mode (and, for the client, the server URL)
MaxArgs == 3
\* the most cycles of the upload client that are followed
MaxCycles == 3

\* ------------------------------------------------------------------------
\* Program constants and configuration
\* ------------------------------------------------------------------------

\* date of the first modelled UTC day, 2026-02-18
EpochDate == 20260218
\* default --submit-hour-utc
SubmitHourUtc == 2

NullDate == 0
NullTime == [date |-> 0, hour |-> 0]
NullError == [at |-> NullTime, message |-> "null"]
NullId == "null"
Undefined == "undefined"

\* ------------------------------------------------------------------------
\* src/src/schedule.ts
\* ------------------------------------------------------------------------

Num(n) == [n |-> n, frac |-> FALSE]

toISOString(now) == [date |-> EpochDate + (now \div 24), hour |-> now % 24]

getUTCHours(now) == now % 24

utcDateString(now) == toISOString(now).date

\* !Number.isInteger(x) || x < 0 || x > 23, on a number x = [n, frac]
InvalidSubmitHour(submitHourUtc) ==
    \/ submitHourUtc.frac
    \/ submitHourUtc.n < 0
    \/ submitHourUtc.n > 23

\* mutant of LessThanNum: hours <= x
LessThanNum_OrEqual(hours, x) == hours <= x.n

\* hours < x, for an integer hours and a number x = [n, frac]
LessThanNum(hours, x) == hours < x.n \/ (hours = x.n /\ x.frac)

\* mutant of shouldRunDailySubmit: the date is not compared
shouldRunDailySubmit_NoDateCheck(now, lastSubmittedDate, submitHourUtc) ==
    IF InvalidSubmitHour(submitHourUtc)
    THEN [threw |-> TRUE, value |-> FALSE]
    ELSE [threw |-> FALSE, value |-> ~LessThanNum(getUTCHours(now), submitHourUtc)]

shouldRunDailySubmit(now, lastSubmittedDate, submitHourUtc) ==
    IF InvalidSubmitHour(submitHourUtc)
    THEN [threw |-> TRUE, value |-> FALSE]
    ELSE IF LessThanNum(getUTCHours(now), submitHourUtc)
         THEN [threw |-> FALSE, value |-> FALSE]
         ELSE LET today == utcDateString(now)
              IN  [threw |-> FALSE, value |-> lastSubmittedDate # today]

\* ------------------------------------------------------------------------
\* src/src/merge.ts
\* ------------------------------------------------------------------------

\* a value that Number() does not turn into a finite number
NotANumber == -1000000

\* significant bits of the numbers of the model (a double has 53); numbers are counted
\* in their smallest unit, so that every Number of the model is a natural number
MantissaBits == 5

\* the distance between neighbouring representable numbers at x
RECURSIVE Quantum(_)
Quantum(x) == IF x < 2^MantissaBits THEN 1 ELSE 2 * Quantum(x \div 2)

\* the representable number nearest to x, ties to the even significand
Float(x) ==
    IF x < 0 THEN x
    ELSE LET q == Quantum(x)
             lo == (x \div q) * q
             r == x - lo
         IN  IF 2 * r < q THEN lo
             ELSE IF 2 * r > q THEN lo + q
             ELSE IF (lo \div q) % 2 = 0 THEN lo ELSE lo + q

\* mutant of Plus: every addition adds one more
Plus_OneMore(a, b) == Float(a + b + 1)

\* a + b on two Numbers (+=, and the + of a reduce)
Plus(a, b) == Float(a + b)

\* the order of localeCompare (root collation; letters before their capitals) on the
\* source, model and provider names of the model
Collation == <<"anthropic", "claude", "claude-opus", "codex", "GLM-4.6", "gpt-5.2-codex",
               "openai", "unknown", "Zed">>

\* the order of the UTF-16 code units on the same names (capitals before small letters)
CodeUnits == <<"GLM-4.6", "Zed", "anthropic", "claude", "claude-opus", "codex",
               "gpt-5.2-codex", "openai", "unknown">>

CodeUnitRank(name) == CHOOSE i \in 1..Len(CodeUnits) : CodeUnits[i] = name

Rank(name) == CHOOSE i \in 1..Len(Collation) : Collation[i] = name

\* a.localeCompare(b) < 0
localeCompare(a, b) == Rank(a) - Rank(b)

EmptyMap == [k \in {} |-> 0]

asNumber(value) == IF value = NotANumber THEN 0 ELSE value

normalizeTokens(tokens) ==
    [input |-> asNumber(tokens.input),
     output |-> asNumber(tokens.output),
     cacheRead |-> asNumber(tokens.cacheRead),
     cacheWrite |-> asNumber(tokens.cacheWrite),
     reasoning |-> asNumber(tokens.reasoning)]

\* normalizeTokens() of no argument
ZeroTokens == [input |-> 0, output |-> 0, cacheRead |-> 0, cacheWrite |-> 0, reasoning |-> 0]

\* mutant of addTokens: the delta replaces the target
addTokens_Overwrite(target, delta) ==
    [input |-> asNumber(delta.input),
     output |-> asNumber(delta.output),
     cacheRead |-> asNumber(delta.cacheRead),
     cacheWrite |-> asNumber(delta.cacheWrite),
     reasoning |-> asNumber(delta.reasoning)]

addTokens(target, delta) ==
    [input |-> Plus(target.input, asNumber(delta.input)),
     output |-> Plus(target.output, asNumber(delta.output)),
     cacheRead |-> Plus(target.cacheRead, asNumber(delta.cacheRead)),
     cacheWrite |-> Plus(target.cacheWrite, asNumber(delta.cacheWrite)),
     reasoning |-> Plus(target.reasoning, asNumber(delta.reasoning))]

\* mutant of sumTokenValues: the input tokens only
sumTokenValues_InputOnly(tokens) == asNumber(tokens.input)

sumTokenValues(tokens) ==
    Plus(Plus(Plus(Plus(Plus(0, asNumber(tokens.input)), asNumber(tokens.output)),
                   asNumber(tokens.cacheRead)),
              asNumber(tokens.cacheWrite)),
         asNumber(tokens.reasoning))

RowKey(sourceEntry) == <<sourceEntry.source, sourceEntry.modelId, sourceEntry.providerId>>

\* the inner loop of collectRows: the rows of one day added to its dayMap
RECURSIVE collectDayRows(_, _)
collectDayRows(dayMap, sources) ==
    IF sources = <<>> THEN dayMap
    ELSE LET sourceEntry == Head(sources)
             key == RowKey(sourceEntry)
             row == IF key \in DOMAIN dayMap
                    THEN dayMap[key]
                    ELSE [source |-> sourceEntry.source,
                          modelId |-> sourceEntry.modelId,
                          providerId |-> sourceEntry.providerId,
                          tokens |-> ZeroTokens, cost |-> 0, messages |-> 0]
             added == [row EXCEPT
                         !.tokens = addTokens(row.tokens, normalizeTokens(sourceEntry.tokens)),
                         !.cost = Plus(row.cost, asNumber(sourceEntry.cost)),
                         !.messages = Plus(row.messages, asNumber(sourceEntry.messages))]
         IN  collectDayRows((key :> added) @@ dayMap, Tail(sources))

\* the middle loop of collectRows: the days of one payload
RECURSIVE collectDays(_, _)
collectDays(byDate, days) ==
    IF days = <<>> THEN byDate
    ELSE LET day == Head(days)
             date == day.date
         IN  IF date = NullDate
             THEN collectDays(byDate, Tail(days))
             ELSE LET dayMap == IF date \in DOMAIN byDate THEN byDate[date] ELSE EmptyMap
                  IN  collectDays((date :> collectDayRows(dayMap, day.sources)) @@ byDate,
                                  Tail(days))

RECURSIVE collectRowsFrom(_, _)
collectRowsFrom(byDate, payloads) ==
    IF payloads = <<>> THEN byDate
    ELSE collectRowsFrom(collectDays(byDate, Head(payloads).contributions), Tail(payloads))

\* mutant of collectRows: a report is read only if its meta.version is "1"
collectRows_ByVersion(payloads) ==
    LET Current(payload) == payload.meta.version = "1"
    IN  collectRowsFrom(EmptyMap, SelectSeq(payloads, Current))

\* mutant of collectRows: only the first report is read
collectRows_FirstReport(payloads) ==
    collectRowsFrom(EmptyMap, IF payloads = <<>> THEN <<>> ELSE <<Head(payloads)>>)

collectRows(payloads) == collectRowsFrom(EmptyMap, payloads)

\* quotients are counted in units of 1 / RatioUnit
RatioUnit == 4096

\* a / b on two positive Numbers: the representable number nearest to the quotient
Divide(a, b) ==
    LET n == a * RatioUnit
        q == Quantum(n \div b)
        lo == (n \div (b * q)) * q
        r == n - lo * b
    IN  IF 2 * r < q * b THEN lo
        ELSE IF 2 * r > q * b THEN lo + q
        ELSE IF (lo \div q) % 2 = 0 THEN lo ELSE lo + q

getIntensity(cost, maxCost) ==
    IF cost <= 0 \/ maxCost <= 0 THEN 0
    ELSE LET ratio == Divide(cost, maxCost)
         IN  IF 4 * ratio < RatioUnit THEN 1
             ELSE IF 2 * ratio < RatioUnit THEN 2
             ELSE IF 4 * ratio < 3 * RatioUnit THEN 3
             ELSE 4

\* [...keys].sort() on date strings
RECURSIVE SortDates(_)
SortDates(dates) ==
    IF dates = {} THEN <<>>
    ELSE LET first == CHOOSE d \in dates : \A e \in dates : d <= e
         IN  <<first>> \o SortDates(dates \ {first})

\* [...set].sort() on names: the default sort compares code units
RECURSIVE SortNames(_)
SortNames(names) ==
    IF names = {} THEN <<>>
    ELSE LET first == CHOOSE a \in names : \A b \in names : CodeUnitRank(a) <= CodeUnitRank(b)
         IN  <<first>> \o SortNames(names \ {first})

\* the comparator of the row sort in buildContributions, as "a before b"
RowBefore(a, b) ==
    IF a.source # b.source THEN localeCompare(a.source, b.source) < 0
    ELSE IF a.modelId # b.modelId THEN localeCompare(a.modelId, b.modelId) < 0
    ELSE localeCompare(a.providerId, b.providerId) < 0

RECURSIVE SortRows(_)
SortRows(rows) ==
    IF rows = {} THEN <<>>
    ELSE LET first == CHOOSE a \in rows : \A b \in rows \ {a} : RowBefore(a, b)
         IN  <<first>> \o SortRows(rows \ {first})

\* all but the last element
Front(seq) == SubSeq(seq, 1, Len(seq) - 1)

Last(seq) == seq[Len(seq)]

\* the row loop of buildContributions: the rows are added in their order
RECURSIVE SumTokens(_)
SumTokens(rows) ==
    IF rows = <<>> THEN ZeroTokens ELSE addTokens(SumTokens(Front(rows)), Last(rows).tokens)

RECURSIVE SumCost(_)
SumCost(rows) == IF rows = <<>> THEN 0 ELSE Plus(SumCost(Front(rows)), Last(rows).cost)

RECURSIVE SumMessages(_)
SumMessages(rows) ==
    IF rows = <<>> THEN 0 ELSE Plus(SumMessages(Front(rows)), Last(rows).messages)

\* one iteration of the date loop of buildContributions
BuildDay(date, dayMap) ==
    LET rows == SortRows({dayMap[k] : k \in DOMAIN dayMap})
        tokenBreakdown == SumTokens(rows)
    IN  [date |-> date,
         totals |-> [tokens |-> sumTokenValues(tokenBreakdown),
                     cost |-> SumCost(rows),
                     messages |-> SumMessages(rows)],
         intensity |-> 0,
         tokenBreakdown |-> tokenBreakdown,
         sources |-> rows]

RECURSIVE MaxDayCost(_)
MaxDayCost(days) ==
    IF days = <<>> THEN 0
    ELSE LET rest == MaxDayCost(Tail(days))
             c == Head(days).totals.cost
         IN  IF c > rest THEN c ELSE rest

\* mutant of buildContributions: the intensity of a day is taken against the greatest
\* cost of the days up to it
buildContributions_RunningMax(byDate) ==
    LET sortedDates == SortDates(DOMAIN byDate)
        built == [i \in 1..Len(sortedDates) |-> BuildDay(sortedDates[i], byDate[sortedDates[i]])]
    IN  [contributions |->
             [i \in 1..Len(built) |->
                 [built[i] EXCEPT !.intensity =
                     getIntensity(built[i].totals.cost, MaxDayCost(SubSeq(built, 1, i)))]],
         maxCostInSingleDay |-> MaxDayCost(built)]

buildContributions(byDate) ==
    LET sortedDates == SortDates(DOMAIN byDate)
        built == [i \in 1..Len(sortedDates) |-> BuildDay(sortedDates[i], byDate[sortedDates[i]])]
        maxCostInSingleDay == MaxDayCost(built)
    IN  [contributions |->
             [i \in 1..Len(built) |->
                 [built[i] EXCEPT !.intensity = getIntensity(built[i].totals.cost, maxCostInSingleDay)]],
         maxCostInSingleDay |-> maxCostInSingleDay]

\* mutant of YearOf: the year and the month, date.slice(0, 7)
YearOf_Month(date) == date \div 100

\* date.slice(0, 4)
YearOf(date) == date \div 10000

\* the loop of computeYearSummaries; years maps a year to its record
RECURSIVE collectYears(_, _)
collectYears(years, contributions) ==
    IF contributions = <<>> THEN years
    ELSE LET day == Head(contributions)
             year == YearOf(day.date)
             record == IF year \in DOMAIN years
                       THEN years[year]
                       ELSE [year |-> year, totalTokens |-> 0, totalCost |-> 0,
                             range |-> [start |-> day.date, end |-> day.date]]
             added == [year |-> year,
                       totalTokens |-> Plus(record.totalTokens, day.totals.tokens),
                       totalCost |-> Plus(record.totalCost, day.totals.cost),
                       range |-> [start |-> IF day.date < record.range.start
                                            THEN day.date ELSE record.range.start,
                                  end |-> IF day.date > record.range.end
                                          THEN day.date ELSE record.range.end]]
         IN  collectYears((year :> added) @@ years, Tail(contributions))

computeYearSummaries(contributions) ==
    LET years == collectYears(EmptyMap, contributions)
        order == SortDates(DOMAIN years)
    IN  [i \in 1..Len(order) |-> years[order[i]]]

\* contributions.reduce((sum, item) => sum + item.totals.tokens, 0)
RECURSIVE SumDayTokens(_)
SumDayTokens(days) ==
    IF days = <<>> THEN 0 ELSE Plus(SumDayTokens(Front(days)), Last(days).totals.tokens)

RECURSIVE SumDayCost(_)
SumDayCost(days) ==
    IF days = <<>> THEN 0 ELSE Plus(SumDayCost(Front(days)), Last(days).totals.cost)

\* mutant of combineError: days without rows do not count
combineError_RowsRequired(payloads) ==
    IF payloads = <<>> THEN "No payloads provided for combine."
    ELSE LET contributions == buildContributions(collectRows(payloads)).contributions
         IN  IF \A i \in DOMAIN contributions : contributions[i].sources = <<>>
             THEN "No contribution rows found in the provided payloads."
             ELSE ""

\* the value thrown by combinePayloads, or "" when it returns
combineError(payloads) ==
    IF payloads = <<>> THEN "No payloads provided for combine."
    ELSE IF buildContributions(collectRows(payloads)).contributions = <<>>
         THEN "No contribution rows found in the provided payloads."
         ELSE ""

\* the report returned by combinePayloads (meta.generatedAt, the merge time, is not modelled)
combinePayloads(payloads) ==
    LET result == buildContributions(collectRows(payloads))
        contributions == result.contributions
        activeDays == Len(contributions)
        totalCost == SumDayCost(contributions)
        rows == UNION {{contributions[i].sources[j] : j \in 1..Len(contributions[i].sources)} :
                           i \in 1..activeDays}
    IN  [meta |-> [version |-> "tk-proxy-1.0.0",
                   dateRange |-> [start |-> contributions[1].date,
                                  end |-> contributions[activeDays].date]],
         summary |-> [totalTokens |-> SumDayTokens(contributions),
                      totalCost |-> totalCost,
                      totalDays |-> activeDays,
                      activeDays |-> activeDays,
                      averagePerDay |-> [num |-> totalCost, den |-> activeDays],
                      maxCostInSingleDay |-> result.maxCostInSingleDay,
                      sources |-> SortNames({r.source : r \in rows}),
                      models |-> SortNames({r.modelId : r \in rows})],
         years |-> computeYearSummaries(contributions),
         contributions |-> contributions]

\* ------------------------------------------------------------------------
\* JSON values and text
\* ------------------------------------------------------------------------

\* A JSON value is [t, v]: its type and, under v, its fields (object), items (array),
\* characters (string) or number.  A string is the sequence of its characters.
J(t, v) == [t |-> t, v |-> v]

\* value.key, for a value on which property access does not throw
Get(value, key) ==
    IF value.t = "object" /\ key \in DOMAIN value.v THEN value.v[key] ELSE J("undefined", <<>>)

\* a report as the JSON value that a client sends
AsJson(report) ==
    J("object", [meta |-> J("object", report.meta),
          summary |-> J("object", report.summary),
          years |-> J("array", report.years),
          contributions |-> J("array", report.contributions)])

\* `${JSON.stringify(data, null, 2)}\n` as a sequence of pieces of text: one for the
\* record, one more for each day of its payload
JSONstringify(data) ==
    LET days == Get(data.payload, "contributions")
        length == 1 + (IF days.t = "array" THEN Len(days.v) ELSE 0)
    IN  [i \in 1..length |-> [piece |-> i, of |-> data]]

\* JSON.parse(text) throws unless text is the whole text of one value
ParseThrows(text) == text = <<>> \/ text # JSONstringify(text[1].of)

\* JSON.parse(text), for a text on which it does not throw
JSONparse(text) == text[1].of

\* typeof value === "object" && value !== null && !Array.isArray(value)
isObject(value) == value.t = "object"

isTokenContributionData(value) ==
    /\ isObject(value)
    /\ isObject(Get(value, "meta"))
    /\ isObject(Get(value, "summary"))
    /\ Get(value, "contributions").t = "array"

\* extractPayloadFromJson(data): the report found, or J("null", <<>>)
extractPayloadFromJson(data) ==
    IF isTokenContributionData(data) THEN data
    ELSE IF isObject(data) /\ isTokenContributionData(Get(data, "submitPayload"))
         THEN Get(data, "submitPayload")
    ELSE IF isObject(data) /\ isTokenContributionData(Get(data, "parsedStdout"))
         THEN Get(data, "parsedStdout")
    ELSE J("null", <<>>)

\* ------------------------------------------------------------------------
\* src/src/server.ts: state
\* ------------------------------------------------------------------------

VARIABLES
    clock,            \* the wall clock, read by new Date()
    options,          \* ServerOptions: submitHourUtc, dryRunSubmit
    running,          \* a server process is up (runServer past line 363)
    bootDate,         \* history: the lastSubmittedDate that the running process read at startup
    state,            \* runServer's variable state (in memory)
    submitInProgress, \* runServer's variable submitInProgress
    attempts,         \* the invocations of maybeSubmit suspended at an await
    clientFiles,      \* <dataDir>/clients/<clientId>.json, by client id
    stateFile,        \* <dataDir>/state.json: <<>> when absent, else <<content>>
    submissions,      \* <dataDir>/submissions/<date>.json, by date
    dropped,          \* history: a call of maybeSubmit returned at line 242 during the attempt in flight
    failedDate,       \* history: the date of the process's latest finished attempt if it failed
    calledOn,         \* history: the UTC day of the latest successful collaborator call
    startedOn,        \* history: the UTC day of the latest start of an attempt
    schedIn,          \* arguments of a call of shouldRunDailySubmit
    schedOut,         \* its outcome
    dir,              \* the directory <dataDir>/clients: the inode that each file name links to
    inodes,           \* the text held by each inode that a name or an open descriptor refers to
    requests,         \* the invocations of the request handler suspended at an await
    sent,             \* the response sent by sendJson in the latest step of a handler, if any
    accepted,         \* history: per file name, the record whose rename came last
    arrived,          \* history: the request that arrived in the latest step, if any
    mergeIn,          \* the argument of a call of combinePayloads
    mergeOut,         \* its outcome
    mergePrev,        \* the argument and the outcome of the call before it, if any, and the
                      \* list whose merge is the first report of that argument or of this one, if any
    utilIn,           \* the arguments of a call of parseDurationMs or computeWaitWithJitterMs
    utilOut,          \* its outcome
    client,           \* an upload client process: runClient's options, position and history
    lifecycle         \* runServer's position: "starting" (up to line 359), "listening" (the
                      \* timer is set and the listener is open), "draining" (past line 371,
                      \* in server.close) or "stopped" (runServer has returned)

serverVars == <<clock, options, running, bootDate, state, submitInProgress, attempts,
                clientFiles, stateFile, submissions, dropped, failedDate,
                calledOn, startedOn>>

pureVars == <<schedIn, schedOut, mergeIn, mergeOut, mergePrev, utilIn, utilOut, client>>

storeVars == <<dir, inodes, requests, sent, accepted, arrived>>

vars == <<serverVars, pureVars, storeVars, lifecycle>>

Times == {t \in 0..MaxTime : t % HourStep = 0}

Days == {utcDateString(t) : t \in Times}

ClientIds == 1..MaxClients

Slots == 1..MaxAttempts

\* a report with one row on the first modelled day
ReportA ==
    [meta |-> [version |-> "1", dateRange |-> [start |-> EpochDate, end |-> EpochDate]],
     summary |-> [totalTokens |-> 0],
     years |-> <<>>,
     contributions |-> <<
        [date |-> EpochDate,
         totals |-> [tokens |-> 12, cost |-> 1, messages |-> 3],
         intensity |-> 4,
         tokenBreakdown |-> [input |-> 10, output |-> 2, cacheRead |-> 0, cacheWrite |-> 0, reasoning |-> 0],
         sources |-> <<[source |-> "codex", modelId |-> "gpt-5.2-codex", providerId |-> "openai",
                        tokens |-> [input |-> 10, output |-> 2, cacheRead |-> 0, cacheWrite |-> 0, reasoning |-> 0],
                        cost |-> 1, messages |-> 3]>>]>>]

\* a report that passes isTokenContributionData and has no contributions
ReportNone ==
    [meta |-> [version |-> "1", dateRange |-> [start |-> NullDate, end |-> NullDate]],
     summary |-> [totalTokens |-> 0],
     years |-> <<>>,
     contributions |-> <<>>]

UploadReports == {ReportA, ReportNone}

\* the outcome of a call of combinePayloads that has not been made
NotMerged == [applied |-> FALSE, threw |-> "", value |-> ReportNone]

\* no call of combinePayloads came before
NoCall == [payloads |-> <<>>, outcome |-> NotMerged, parts |-> <<>>, nested |-> FALSE]

\* no call of parseDurationMs or computeWaitWithJitterMs
NoUtilCall == [fn |-> ""]

\* the outcome of such a call that has not been made
NotCalled == [applied |-> FALSE, threw |-> "", value |-> 0]

\* no upload client is running
NoClient ==
    [pc |-> "off", options |-> [intervalMs |-> 0, jitterMs |-> 0, once |-> FALSE],
     shouldStop |-> FALSE, cycles |-> 0, failures |-> 0, waitMs |-> 0, slept |-> 0]

\* the responses the collaborator can return on success: with and without submissionId
SubmitResponses == {[submissionId |-> "sub-1"], [submissionId |-> Undefined]}

NoPayload == [none |-> TRUE]

NoResponse == [none |-> TRUE]

defaultState ==
    [lastSubmittedDate |-> NullDate,
     lastSubmittedAt |-> NullTime,
     lastSubmitError |-> NullError,
     lastSubmissionId |-> NullId]

\* mutant of readState: the file is not read
readState_Default(file) == defaultState

\* readState on the content of state.json (which only writeState writes)
readState(file) == IF file = <<>> THEN defaultState ELSE file[1]

\* value ?? fallback
Coalesce(value, fallback) == IF value = Undefined THEN fallback ELSE value

RECURSIVE SortIds(_)
SortIds(ids) ==
    IF ids = {} THEN <<>>
    ELSE LET first == CHOOSE a \in ids : \A b \in ids : a <= b
         IN  <<first>> \o SortIds(ids \ {first})

\* the captures listed from the clients directory, sorted by clientId
readClientCaptureFiles(files) ==
    LET order == SortIds(DOMAIN files)
    IN  [i \in 1..Len(order) |-> files[order[i]]]

\* captures.map((item) => item.payload)
Payloads(captures) == [i \in 1..Len(captures) |-> captures[i].payload]

\* the record written by writeClientCapture
StoredClientCapture(clientId, payload) == [clientId |-> clientId, payload |-> payload]

\* the submitResult of the dry-run branch
DryRunResult(payload) == [mode |-> "dry-run", response |-> [summary |-> payload.summary]]

\* the submitResult of the live branch
LiveResult(response) == [mode |-> "submit", response |-> response]

\* the file content written by writeSubmissionRecord
SubmissionRecord(date, payload, submitResult) ==
    [submittedDate |-> date, result |-> submitResult, payload |-> payload]

\* mutant of DryRunState: the error is kept
DryRunState_KeepError(st, date, at) ==
    [st EXCEPT !.lastSubmittedDate = date,
               !.lastSubmittedAt = at,
               !.lastSubmissionId = NullId]

\* the state assigned in the dry-run branch
DryRunState(st, date, at) ==
    [st EXCEPT !.lastSubmittedDate = date,
               !.lastSubmittedAt = at,
               !.lastSubmitError = NullError,
               !.lastSubmissionId = NullId]

\* mutant of LiveState: the id is taken without ?? null
LiveState_RawId(st, date, at, response) ==
    [st EXCEPT !.lastSubmittedDate = date,
               !.lastSubmittedAt = at,
               !.lastSubmitError = NullError,
               !.lastSubmissionId = response.submissionId]

\* the state assigned in the live branch
LiveState(st, date, at, response) ==
    [st EXCEPT !.lastSubmittedDate = date,
               !.lastSubmittedAt = at,
               !.lastSubmitError = NullError,
               !.lastSubmissionId = Coalesce(response.submissionId, NullId)]

\* mutant of ErrorState: the error's time is also stored as lastSubmittedAt
ErrorState_Stamped(st, message) ==
    [st EXCEPT !.lastSubmitError = message, !.lastSubmittedAt = message.at]

\* the state assigned in the catch block
ErrorState(st, message) == [st EXCEPT !.lastSubmitError = message]

\* the message built in the catch block
ErrorMessage(at, text) == [at |-> at, message |-> text]

\* mutant of Outstanding: the flag is not consulted
Outstanding_Never(flag) == FALSE

\* the first statement of maybeSubmit: an attempt is outstanding
Outstanding(flag) == flag

\* ------------------------------------------------------------------------
\* src/src/server.ts: the request handler's functions
\* ------------------------------------------------------------------------

MAX_REQUEST_BYTES == 10 * 1024 * 1024

\* the bearer token configured by --auth-token in the modelled runs
AuthToken == "secret"

\* a token that is null or empty
NullToken == ""

\* the request header Authorization as "<scheme> <rest>"; absent when both are empty
NoHeader == [scheme |-> "", rest |-> ""]

\* authHeader.match(/^Bearer\s+(.+)$/i)?.[1] ?? null
getBearerToken(header) ==
    IF header = NoHeader THEN NullToken
    ELSE IF header.scheme \in {"Bearer", "BEARER"} /\ header.rest # "" THEN header.rest
    ELSE NullToken

\* mutant of assertAuthorized: a request without a token is let in
assertAuthorized_AbsentPasses(header, token, noAuth) ==
    IF noAuth THEN FALSE
    ELSE IF token = NullToken THEN TRUE
    ELSE LET provided == getBearerToken(header)
         IN  provided # NullToken /\ provided # token

\* assertAuthorized throws "Unauthorized"
assertAuthorized(header, token, noAuth) ==
    IF noAuth THEN FALSE
    ELSE IF token = NullToken THEN TRUE
    ELSE LET provided == getBearerToken(header)
         IN  provided = NullToken \/ provided # token

\* the characters of the class [a-zA-Z0-9._-] that occur in the model
IdChars == {"a", "b", "0", ".", "_", "-"}

WhiteSpace == {" ", "\t"}

RECURSIVE TrimStart(_)
TrimStart(chars) ==
    IF chars # <<>> /\ Head(chars) \in WhiteSpace THEN TrimStart(Tail(chars)) ELSE chars

RECURSIVE TrimEnd(_)
TrimEnd(chars) ==
    IF chars # <<>> /\ chars[Len(chars)] \in WhiteSpace
    THEN TrimEnd(SubSeq(chars, 1, Len(chars) - 1))
    ELSE chars

\* chars.trim()
Trim(chars) == TrimEnd(TrimStart(chars))

\* sanitizeClientId(clientId), for a clientId that is not empty after trim
sanitizeClientId(clientId) ==
    LET normalized == Trim(clientId)
    IN  [i \in 1..Len(normalized) |->
            IF normalized[i] \in IdChars THEN normalized[i] ELSE "_"]

\* the string of a JSON value if it is a string, else ""
StringOr(value) == IF value.t = "string" THEN value.v ELSE <<>>

\* mutant of parseUploadError: the clientId is not trimmed before it is tested
parseUploadError_Untrimmed(parsed) ==
    IF parsed.t = "invalid" THEN "Request body must be valid JSON"
    ELSE IF parsed.t \notin {"object", "array"}
    THEN "Request body must be a JSON object"
    ELSE IF StringOr(Get(parsed, "clientId")) = <<>> THEN "clientId is required"
    ELSE LET given == Get(parsed, "payload")
             data == IF given.t \in {"undefined", "null"} THEN parsed ELSE given
         IN  IF extractPayloadFromJson(data).t = "null"
             THEN "payload is required and must be a tokscale contribution payload"
             ELSE ""

\* the message of the error thrown by parseUpload on the parsed body, or "" when it returns
parseUploadError(parsed) ==
    IF parsed.t = "invalid" THEN "Request body must be valid JSON"
    ELSE IF parsed.t \notin {"object", "array"}
    THEN "Request body must be a JSON object"
    ELSE IF Trim(StringOr(Get(parsed, "clientId"))) = <<>> THEN "clientId is required"
    ELSE LET given == Get(parsed, "payload")
             data == IF given.t \in {"undefined", "null"} THEN parsed ELSE given
         IN  IF extractPayloadFromJson(data).t = "null"
             THEN "payload is required and must be a tokscale contribution payload"
             ELSE ""

\* the value returned by parseUpload on the parsed body at the instant at; sourceHost null
\* is the empty string, and the capturedAt strings of the model are timestamps
parseUpload(parsed, at) ==
    LET given == Get(parsed, "payload")
        data == IF given.t \in {"undefined", "null"} THEN parsed ELSE given
    IN  [clientId |-> sanitizeClientId(StringOr(Get(parsed, "clientId"))),
         capturedAt |-> IF Get(parsed, "capturedAt").t = "string"
                        THEN Get(parsed, "capturedAt").v ELSE at,
         payload |-> extractPayloadFromJson(data),
         sourceHost |-> Trim(StringOr(Get(parsed, "sourceHost")))]

\* the record built by writeClientCapture at the instant at
CaptureRecord(data, at) ==
    [schemaVersion |-> "tk-proxy-client-capture.v1",
     clientId |-> data.clientId,
     capturedAt |-> data.capturedAt,
     receivedAt |-> at,
     sourceHost |-> data.sourceHost,
     payload |-> data.payload]

\* the name of a client's file in <dataDir>/clients
FileName(clientId) == [base |-> clientId, ext |-> ".json", tmp |-> -1]

\* `${absolute}.tmp-${process.pid}-${Date.now()}`, within one process
TempName(name, now) == [name EXCEPT !.tmp = now]

\* entry.name.endsWith(".json")
EndsWithJson(name) == name.tmp = -1

\* client ids as sent: two that are sanitized to "a_b", one to "b_", and a blank one
IdSpaced == <<" ", "a", " ", "b">>

IdPlain == <<"a", "_", "b">>


\* the request bodies offered to POST /v1/captures, by number: 1..4 hold a client id and
\* a report (under payload, payload.submitPayload, parsedStdout, bare); the others do not
Body(i) ==
    CASE i = 1 -> [bytes |-> MAX_REQUEST_BYTES,
                   json |-> J("object", [clientId |-> J("string", IdSpaced), payload |-> AsJson(ReportA)])]
      [] i = 2 -> [bytes |-> 200,
                   json |-> J("object", [clientId |-> J("string", IdPlain),
                                  payload |-> J("object", [submitPayload |-> AsJson(ReportNone)])])]
      [] i = 3 -> [bytes |-> 200,
                   json |-> J("object", [clientId |-> J("string", <<"b", "/">>),
                                  sourceHost |-> J("string", <<" ", "h">>),
                                  parsedStdout |-> AsJson(ReportA)])]
      [] i = 4 -> [bytes |-> 200,
                   json |-> J("object", [clientId |-> J("string", IdPlain),
                                  capturedAt |-> J("string", toISOString(1)),
                                  meta |-> J("object", ReportNone.meta),
                                  summary |-> J("object", ReportNone.summary),
                                  contributions |-> J("array", <<>>)])]
      [] i = 5 -> [bytes |-> 200, json |-> [t |-> "invalid", v |-> <<>>]]
      [] i = 6 -> [bytes |-> 4, json |-> J("null", <<>>)]
      [] i = 7 -> [bytes |-> 2, json |-> J("array", <<>>)]
      [] i = 8 -> [bytes |-> 200, json |-> J("object", [payload |-> AsJson(ReportA)])]
      [] i = 9 -> [bytes |-> 200,
                   json |-> J("object", [clientId |-> J("string", <<" ", "\t">>), payload |-> AsJson(ReportA)])]
      [] i = 10 -> [bytes |-> 200,
                    json |-> J("object", [clientId |-> J("number", 5), payload |-> AsJson(ReportA)])]
      [] i = 11 -> [bytes |-> 200, json |-> J("object", [clientId |-> J("string", IdPlain)])]
      [] i = 12 -> [bytes |-> 200,
                    json |-> J("object", [clientId |-> J("string", IdPlain),
                                   payload |-> J("object", EmptyMap),
                                   submitPayload |-> AsJson(ReportA)])]
      [] OTHER -> [bytes |-> MAX_REQUEST_BYTES + 1,
                   json |-> J("object", [clientId |-> J("string", IdSpaced), payload |-> AsJson(ReportA)])]

ValidBodies == 1..4

\* the Authorization headers offered
Headers ==
    {NoHeader,
     [scheme |-> "Bearer", rest |-> AuthToken],
     [scheme |-> "BEARER", rest |-> AuthToken],
     [scheme |-> "Bearer", rest |-> "Secret"],
     [scheme |-> "Bearer", rest |-> "secret "],
     [scheme |-> "Bearer", rest |-> ""],
     [scheme |-> "Basic", rest |-> AuthToken]}

\* method and path of the requests offered
Routes == {"GET /healthz", "GET /status", "POST /v1/captures", "GET /"}

NoRecord ==
    [schemaVersion |-> "", clientId |-> <<>>, capturedAt |-> NullTime,
     receivedAt |-> NullTime, sourceHost |-> <<>>, payload |-> J("null", <<>>)]

NoName == [base |-> <<>>, ext |-> "", tmp |-> -1]

IdleRequest ==
    [pc |-> "idle", body |-> 0, data |-> NoRecord, name |-> NoName, temp |-> NoName,
     fd |-> 0, pos |-> 0]

NoArrival == [route |-> "", header |-> NoHeader, body |-> 0]

NotSent ==
    [status |-> 0, error |-> "", clientId |-> <<>>, at |-> NullTime, clients |-> <<>>,
     state |-> defaultState]

Handlers == 1..MaxRequests

IdleAttempt ==
    [pc |-> "idle", now |-> 0, payload |-> NoPayload, response |-> NoResponse,
     toWrite |-> defaultState, preState |-> defaultState, preFile |-> <<>>]

Init ==
    /\ clock = 0
    /\ options \in [submitHourUtc : {SubmitHourUtc}, dryRunSubmit : BOOLEAN,
                    noAuth : {FALSE}, authToken : {AuthToken}]
    /\ running = FALSE
    /\ bootDate = NullDate
    /\ state = defaultState
    /\ submitInProgress = FALSE
    /\ attempts = [s \in Slots |-> IdleAttempt]
    /\ clientFiles = EmptyMap
    /\ stateFile = <<>>
    /\ submissions = EmptyMap
    /\ dropped = FALSE
    /\ failedDate = NullDate
    /\ calledOn = NullDate
    /\ startedOn = NullDate
    /\ schedIn = [now |-> 0, lastSubmittedDate |-> NullDate, submitHourUtc |-> Num(SubmitHourUtc)]
    /\ schedOut = [applied |-> FALSE, threw |-> FALSE, value |-> FALSE]
    /\ dir = EmptyMap
    /\ inodes = <<>>
    /\ requests = [h \in Handlers |-> IdleRequest]
    /\ sent = NotSent
    /\ accepted = EmptyMap
    /\ arrived = NoArrival
    /\ mergeIn = <<>>
    /\ mergeOut = NotMerged
    /\ mergePrev = NoCall
    /\ utilIn = NoUtilCall
    /\ utilOut = NotCalled
    /\ lifecycle = "starting"
    /\ client = NoClient

\* ------------------------------------------------------------------------
\* src/src/server.ts: operations
\* ------------------------------------------------------------------------

FreeSlot ==
    CHOOSE s \in Slots : attempts[s].pc = "idle" /\ \A r \in Slots : attempts[r].pc = "idle" => s <= r

PersistedDate(file) == IF file = <<>> THEN NullDate ELSE file[1].lastSubmittedDate

\* maybeSubmit from its call to its first await, called with the in-memory state st
MaybeSubmit(st) ==
    /\ LET now == clock
           gate == shouldRunDailySubmit(now, st.lastSubmittedDate, Num(options.submitHourUtc))
       IN  IF Outstanding(submitInProgress)
           THEN /\ dropped' = TRUE
                /\ UNCHANGED <<submitInProgress, attempts, startedOn>>
           ELSE IF gate.threw \/ ~gate.value
           THEN UNCHANGED <<submitInProgress, attempts, startedOn, dropped>>
           ELSE /\ \E s \in Slots : attempts[s].pc = "idle"
                /\ UNCHANGED dropped
                /\ submitInProgress' = TRUE
                /\ attempts' = [attempts EXCEPT ![FreeSlot] =
                                   [IdleAttempt EXCEPT !.pc = "list", !.now = now,
                                                       !.preState = st, !.preFile = stateFile]]
                /\ startedOn' = utcDateString(now)

\* the catch block up to its await: the error is recorded in memory and writeState is called
EnterCatch(s, text) ==
    LET message == ErrorMessage(toISOString(clock), text)
        next == ErrorState(state, message)
    IN  /\ state' = next
        /\ attempts' = [attempts EXCEPT ![s].pc = "catch", ![s].toWrite = next]

\* mutant of Finish: the invocation ends with the flag left as it is
Finish_KeepFlag(s) ==
    /\ submitInProgress' = submitInProgress
    /\ attempts' = [attempts EXCEPT ![s] = IdleAttempt]
    /\ dropped' = FALSE

\* the finally block, and the end of the invocation
Finish(s) ==
    /\ submitInProgress' = FALSE
    /\ attempts' = [attempts EXCEPT ![s] = IdleAttempt]
    /\ dropped' = FALSE

\* runServer up to the installation of the timer: the data directory is ensured, state.json
\* is read, the listener is bound and maybeSubmit is called once
Start ==
    /\ ~running
    /\ running' = TRUE
    /\ state' = readState(stateFile)
    /\ bootDate' = PersistedDate(stateFile)
    /\ MaybeSubmit(readState(stateFile))
    /\ lifecycle' = "listening"
    /\ UNCHANGED <<clock, options, clientFiles, stateFile, submissions, failedDate, calledOn>>
    /\ UNCHANGED <<pureVars, storeVars>>

\* the timer callback; the timer is set at line 361 and cleared at line 371
Tick ==
    /\ running
    /\ lifecycle = "listening"
    /\ MaybeSubmit(state)
    /\ UNCHANGED <<clock, options, running, bootDate, state, clientFiles, stateFile,
                   submissions, failedDate, calledOn>>
    /\ UNCHANGED <<pureVars, storeVars, lifecycle>>

\* the process ends (kill, or an unhandled rejection): memory and suspended work are lost
Crash ==
    /\ running
    /\ running' = FALSE
    /\ lifecycle' = "starting"
    /\ bootDate' = NullDate
    /\ state' = defaultState
    /\ submitInProgress' = FALSE
    /\ attempts' = [s \in Slots |-> IdleAttempt]
    /\ dropped' = FALSE
    /\ failedDate' = NullDate
    /\ UNCHANGED <<clock, options, clientFiles, stateFile, submissions, calledOn, startedOn>>
    /\ UNCHANGED <<pureVars, storeVars>>

\* time passes
Advance ==
    /\ clock + HourStep <= MaxTime
    /\ clock' = clock + HourStep
    /\ UNCHANGED <<options, running, bootDate, state, submitInProgress, attempts,
                   clientFiles, stateFile, submissions, dropped, failedDate, calledOn, startedOn>>
    /\ UNCHANGED <<pureVars, storeVars, lifecycle>>

\* POST /v1/captures with an authorized, valid upload: writeClientCapture
PostCaptures(clientId, payload) ==
    /\ running
    /\ lifecycle = "listening"
    /\ clientFiles' = (clientId :> StoredClientCapture(clientId, payload)) @@ clientFiles
    /\ UNCHANGED <<clock, options, running, bootDate, state, submitInProgress, attempts,
                   stateFile, submissions, dropped, failedDate, calledOn, startedOn>>
    /\ UNCHANGED <<pureVars, storeVars, lifecycle>>

\* readClientCaptureFiles returns or fails; on return the captures are merged and the
\* dry-run record write or the collaborator call is started
ListDone(s, ok) ==
    /\ running
    /\ attempts[s].pc = "list"
    /\ LET captures == readClientCaptureFiles(clientFiles)
           payloads == Payloads(captures)
       IN  IF ~ok
           THEN EnterCatch(s, "readdir failed")
           ELSE IF Len(captures) = 0
           THEN EnterCatch(s, "No client captures available")
           ELSE IF combineError(payloads) # ""
           THEN EnterCatch(s, combineError(payloads))
           ELSE /\ attempts' = [attempts EXCEPT
                                  ![s].pc = IF options.dryRunSubmit THEN "record" ELSE "submit",
                                  ![s].payload = combinePayloads(payloads)]
                /\ UNCHANGED state
    /\ UNCHANGED <<clock, options, running, bootDate, submitInProgress,
                   clientFiles, stateFile, submissions, dropped, failedDate, calledOn, startedOn>>
    /\ UNCHANGED <<pureVars, storeVars, lifecycle>>

\* submitToTokscale returns a response or throws (live mode only)
SubmitDone(s, ok, response) ==
    /\ running
    /\ attempts[s].pc = "submit"
    /\ IF ok
       THEN /\ calledOn' = utcDateString(clock)
            /\ attempts' = [attempts EXCEPT ![s].pc = "record", ![s].response = response]
            /\ UNCHANGED state
       ELSE /\ EnterCatch(s, "Submission failed")
            /\ UNCHANGED calledOn
    /\ UNCHANGED <<clock, options, running, bootDate, submitInProgress,
                   clientFiles, stateFile, submissions, dropped, failedDate, startedOn>>
    /\ UNCHANGED <<pureVars, storeVars, lifecycle>>

\* mutant of RecordDone: the record is named after the day on which it is written
RecordDone_DateOfWrite(s, ok) ==
    /\ running
    /\ attempts[s].pc = "record"
    /\ LET a == attempts[s]
           date == utcDateString(clock)
           submitResult == IF options.dryRunSubmit
                           THEN DryRunResult(a.payload)
                           ELSE LiveResult(a.response)
           next == IF options.dryRunSubmit
                   THEN DryRunState(state, date, toISOString(clock))
                   ELSE LiveState(state, date, toISOString(clock), a.response)
       IN  IF ok
           THEN /\ submissions' = (date :> SubmissionRecord(date, a.payload, submitResult)) @@ submissions
                /\ state' = next
                /\ attempts' = [attempts EXCEPT ![s].pc = "state", ![s].toWrite = next]
           ELSE /\ EnterCatch(s, "write failed")
                /\ UNCHANGED submissions
    /\ UNCHANGED <<clock, options, running, bootDate, submitInProgress,
                   clientFiles, stateFile, dropped, failedDate, calledOn, startedOn>>
    /\ UNCHANGED <<pureVars, storeVars, lifecycle>>

\* mutant of RecordDone: the state is advanced although no record was written
RecordDone_NoRecord(s, ok) ==
    /\ running
    /\ attempts[s].pc = "record"
    /\ LET a == attempts[s]
           date == utcDateString(a.now)
           submitResult == IF options.dryRunSubmit
                           THEN DryRunResult(a.payload)
                           ELSE LiveResult(a.response)
           next == IF options.dryRunSubmit
                   THEN DryRunState(state, date, toISOString(clock))
                   ELSE LiveState(state, date, toISOString(clock), a.response)
       IN  IF ok
           THEN /\ submissions' = submissions
                /\ state' = next
                /\ attempts' = [attempts EXCEPT ![s].pc = "state", ![s].toWrite = next]
           ELSE /\ EnterCatch(s, "write failed")
                /\ UNCHANGED submissions
    /\ UNCHANGED <<clock, options, running, bootDate, submitInProgress,
                   clientFiles, stateFile, dropped, failedDate, calledOn, startedOn>>
    /\ UNCHANGED <<pureVars, storeVars, lifecycle>>

\* writeSubmissionRecord returns or fails; on return the new state is assigned in memory
\* and writeState is called
RecordDone(s, ok) ==
    /\ running
    /\ attempts[s].pc = "record"
    /\ LET a == attempts[s]
           date == utcDateString(a.now)
           submitResult == IF options.dryRunSubmit
                           THEN DryRunResult(a.payload)
                           ELSE LiveResult(a.response)
           next == IF options.dryRunSubmit
                   THEN DryRunState(state, date, toISOString(clock))
                   ELSE LiveState(state, date, toISOString(clock), a.response)
       IN  IF ok
           THEN /\ submissions' = (date :> SubmissionRecord(date, a.payload, submitResult)) @@ submissions
                /\ state' = next
                /\ attempts' = [attempts EXCEPT ![s].pc = "state", ![s].toWrite = next]
           ELSE /\ EnterCatch(s, "write failed")
                /\ UNCHANGED submissions
    /\ UNCHANGED <<clock, options, running, bootDate, submitInProgress,
                   clientFiles, stateFile, dropped, failedDate, calledOn, startedOn>>
    /\ UNCHANGED <<pureVars, storeVars, lifecycle>>

\* the writeState of the try block returns or fails
StateDone(s, ok) ==
    /\ running
    /\ attempts[s].pc = "state"
    /\ IF ok
       THEN /\ stateFile' = <<attempts[s].toWrite>>
            /\ Finish(s)
            /\ failedDate' = NullDate
            /\ UNCHANGED state
       ELSE /\ EnterCatch(s, "write failed")
            /\ UNCHANGED <<stateFile, submitInProgress, dropped, failedDate>>
    /\ UNCHANGED <<clock, options, running, bootDate,
                   clientFiles, submissions, calledOn, startedOn>>
    /\ UNCHANGED <<pureVars, storeVars, lifecycle>>

\* the writeState of the catch block returns or fails (the failure rejects maybeSubmit's promise)
CatchDone(s, ok) ==
    /\ running
    /\ attempts[s].pc = "catch"
    /\ stateFile' = IF ok THEN <<attempts[s].toWrite>> ELSE stateFile
    /\ Finish(s)
    /\ failedDate' = utcDateString(attempts[s].now)
    /\ UNCHANGED <<clock, options, running, bootDate, state,
                   clientFiles, submissions, calledOn, startedOn>>
    /\ UNCHANGED <<pureVars, storeVars, lifecycle>>

Next ==
    \/ Start
    \/ Tick
    \/ Crash
    \/ Advance
    \/ \E c \in ClientIds, p \in UploadReports : PostCaptures(c, p)
    \/ \E s \in Slots, ok \in BOOLEAN : ListDone(s, ok)
    \/ \E s \in Slots, ok \in BOOLEAN, r \in SubmitResponses : SubmitDone(s, ok, r)
    \/ \E s \in Slots, ok \in BOOLEAN : RecordDone(s, ok)
    \/ \E s \in Slots, ok \in BOOLEAN : StateDone(s, ok)
    \/ \E s \in Slots, ok \in BOOLEAN : CatchDone(s, ok)

Spec == Init /\ [][Next]_vars

\* a call of the file system or of the collaborator that an attempt awaits returns or fails
IoReturns ==
    \/ \E s \in Slots, ok \in BOOLEAN : ListDone(s, ok)
    \/ \E s \in Slots, ok \in BOOLEAN, r \in SubmitResponses : SubmitDone(s, ok, r)
    \/ \E s \in Slots, ok \in BOOLEAN : RecordDone(s, ok)
    \/ \E s \in Slots, ok \in BOOLEAN : StateDone(s, ok)
    \/ \E s \in Slots, ok \in BOOLEAN : CatchDone(s, ok)

\* the server with every awaited call returning in the end: the promises that maybeSubmit
\* awaits (lines 248, 256, 269, 274, 275, 286, 294) are settled by the event loop
NextAttempt ==
    \/ Start
    \/ Tick
    \/ Advance
    \/ \E c \in ClientIds : PostCaptures(c, ReportA)
    \/ IoReturns

SpecAttempt == Init /\ [][NextAttempt]_vars /\ WF_vars(IoReturns)

\* ------------------------------------------------------------------------
\* shouldRunDailySubmit applied to arguments drawn from bounded sets
\* ------------------------------------------------------------------------

\* the numbers offered as submitHourUtc: -1, -1/2, 0, 1/2, ..., 24, 24 1/2
SchedHours == {[n |-> n, frac |-> f] : n \in -1..24, f \in BOOLEAN}

\* the values offered as lastSubmittedDate: null, the day before the first, the modelled days
SchedDates == {NullDate, EpochDate - 1} \cup {EpochDate + d : d \in 0..(MaxTime \div 24) + 1}

InitSchedule ==
    /\ clock = 0
    /\ options = [submitHourUtc |-> SubmitHourUtc, dryRunSubmit |-> FALSE,
                  noAuth |-> FALSE, authToken |-> AuthToken]
    /\ running = FALSE
    /\ bootDate = NullDate
    /\ state = defaultState
    /\ submitInProgress = FALSE
    /\ attempts = [s \in Slots |-> IdleAttempt]
    /\ clientFiles = EmptyMap
    /\ stateFile = <<>>
    /\ submissions = EmptyMap
    /\ dropped = FALSE
    /\ failedDate = NullDate
    /\ calledOn = NullDate
    /\ startedOn = NullDate
    /\ schedIn \in [now : 0..MaxTime, lastSubmittedDate : SchedDates, submitHourUtc : SchedHours]
    /\ schedOut = [applied |-> FALSE, threw |-> FALSE, value |-> FALSE]
    /\ dir = EmptyMap
    /\ inodes = <<>>
    /\ requests = [h \in Handlers |-> IdleRequest]
    /\ sent = NotSent
    /\ accepted = EmptyMap
    /\ arrived = NoArrival
    /\ mergeIn = <<>>
    /\ mergeOut = NotMerged
    /\ mergePrev = NoCall
    /\ utilIn = NoUtilCall
    /\ utilOut = NotCalled
    /\ lifecycle = "starting"
    /\ client = NoClient

ApplyShouldRun ==
    /\ ~schedOut.applied
    /\ LET r == shouldRunDailySubmit(schedIn.now, schedIn.lastSubmittedDate, schedIn.submitHourUtc)
       IN  schedOut' = [applied |-> TRUE, threw |-> r.threw, value |-> r.value]
    /\ UNCHANGED <<schedIn, mergeIn, mergeOut, mergePrev, utilIn, utilOut>>
    /\ UNCHANGED client
    /\ UNCHANGED <<serverVars, storeVars, lifecycle>>

NextSchedule == ApplyShouldRun

SpecSchedule == InitSchedule /\ [][NextSchedule]_vars

\* ------------------------------------------------------------------------
\* src/src/schedule.ts: parseDurationMs and computeWaitWithJitterMs applied to
\* arguments drawn from bounded sets
\* ------------------------------------------------------------------------

\* the characters of the texts given to parseDurationMs
DurationChars == {"0", "1", "2", "s", "m", "h", "d", "H", "x", "-", ".", " "}

Digits == <<"0", "1", "2", "3", "4", "5", "6", "7", "8", "9">>

\* [0-9]
IsDigit(c) == \E i \in DOMAIN Digits : Digits[i] = c

\* [smhd]
IsUnit(c) == c \in {"s", "m", "h", "d"}

\* the factors of DURATION_FACTORS_MS, counted in units of 1000 ms
DURATION_FACTORS_MS == [s |-> 1, m |-> 60, h |-> 60 * 60, d |-> 24 * 60 * 60]

\* chars.toLowerCase()
toLowerCase(chars) ==
    [i \in DOMAIN chars |->
        IF chars[i] = "H" THEN "h"
        ELSE IF chars[i] = "S" THEN "s"
        ELSE IF chars[i] = "M" THEN "m"
        ELSE IF chars[i] = "D" THEN "d"
        ELSE chars[i]]

\* Number(digits) on a text of decimal digits
RECURSIVE NumberOf(_)
NumberOf(digits) ==
    IF digits = <<>> THEN 0
    ELSE 10 * NumberOf(Front(digits))
            + (CHOOSE i \in DOMAIN Digits : Digits[i] = Last(digits)) - 1

\* normalized.match(/^([0-9]+)([smhd])$/) is not null
MatchesDuration(normalized) ==
    /\ Len(normalized) >= 2
    /\ IsUnit(Last(normalized))
    /\ \A i \in 1..(Len(normalized) - 1) : IsDigit(normalized[i])

\* mutant of parseDurationMs: the amount is not checked
parseDurationMs_AnyAmount(value) ==
    LET normalized == toLowerCase(Trim(value))
    IN  IF ~MatchesDuration(normalized)
        THEN [threw |-> "Invalid duration", value |-> 0]
        ELSE [threw |-> "",
              value |-> NumberOf(Front(normalized)) * DURATION_FACTORS_MS[Last(normalized)]]

\* parseDurationMs(value): the error thrown (its message up to the value), or "" and the
\* number returned, in units of 1000 ms
parseDurationMs(value) ==
    LET normalized == toLowerCase(Trim(value))
        amount == NumberOf(Front(normalized))
    IN  IF ~MatchesDuration(normalized)
        THEN [threw |-> "Invalid duration", value |-> 0]
        ELSE IF amount <= 0
        THEN [threw |-> "Duration must be greater than zero", value |-> 0]
        ELSE [threw |-> "", value |-> amount * DURATION_FACTORS_MS[Last(normalized)]]

\* mutant of computeWaitWithJitterMs: Math.ceil for Math.floor
computeWaitWithJitterMs_Ceil(baseMs, jitterMs, random) ==
    IF baseMs <= 0 THEN [threw |-> "baseMs must be greater than zero", value |-> 0]
    ELSE IF jitterMs < 0 THEN [threw |-> "jitterMs must be zero or positive", value |-> 0]
    ELSE IF jitterMs = 0 THEN [threw |-> "", value |-> baseMs]
    ELSE [threw |-> "",
          value |-> baseMs + (random * jitterMs + RandomSteps - 1) \div RandomSteps]

\* computeWaitWithJitterMs(baseMs, jitterMs, random), where random() returns
\* random / RandomSteps: Math.floor(random() * jitterMs) is (random * jitterMs) \div RandomSteps
computeWaitWithJitterMs(baseMs, jitterMs, random) ==
    IF baseMs <= 0 THEN [threw |-> "baseMs must be greater than zero", value |-> 0]
    ELSE IF jitterMs < 0 THEN [threw |-> "jitterMs must be zero or positive", value |-> 0]
    ELSE IF jitterMs = 0 THEN [threw |-> "", value |-> baseMs]
    ELSE [threw |-> "", value |-> baseMs + (random * jitterMs) \div RandomSteps]

\* the calls offered
DurationCalls ==
    {[fn |-> "parseDurationMs", value |-> v] :
        v \in UNION {[1..n -> DurationChars] : n \in 0..MaxDurationLen}}

WaitCalls ==
    [fn : {"computeWaitWithJitterMs"}, baseMs : -1..MaxWaitMs, jitterMs : -1..MaxWaitMs,
     random : 0..(RandomSteps - 1)]

InitUtil ==
    /\ clock = 0
    /\ options = [submitHourUtc |-> SubmitHourUtc, dryRunSubmit |-> FALSE,
                  noAuth |-> FALSE, authToken |-> AuthToken]
    /\ running = FALSE
    /\ bootDate = NullDate
    /\ state = defaultState
    /\ submitInProgress = FALSE
    /\ attempts = [s \in Slots |-> IdleAttempt]
    /\ clientFiles = EmptyMap
    /\ stateFile = <<>>
    /\ submissions = EmptyMap
    /\ dropped = FALSE
    /\ failedDate = NullDate
    /\ calledOn = NullDate
    /\ startedOn = NullDate
    /\ schedIn = [now |-> 0, lastSubmittedDate |-> NullDate, submitHourUtc |-> Num(SubmitHourUtc)]
    /\ schedOut = [applied |-> FALSE, threw |-> FALSE, value |-> FALSE]
    /\ dir = EmptyMap
    /\ inodes = <<>>
    /\ requests = [h \in Handlers |-> IdleRequest]
    /\ sent = NotSent
    /\ accepted = EmptyMap
    /\ arrived = NoArrival
    /\ mergeIn = <<>>
    /\ mergeOut = NotMerged
    /\ mergePrev = NoCall
    /\ utilIn \in DurationCalls \cup WaitCalls
    /\ utilOut = NotCalled
    /\ lifecycle = "starting"
    /\ client = NoClient

ApplyParseDuration ==
    /\ ~utilOut.applied
    /\ utilIn.fn = "parseDurationMs"
    /\ LET r == parseDurationMs(utilIn.value)
       IN  utilOut' = [applied |-> TRUE, threw |-> r.threw, value |-> r.value]
    /\ UNCHANGED <<schedIn, schedOut, mergeIn, mergeOut, mergePrev, utilIn>>
    /\ UNCHANGED client
    /\ UNCHANGED <<serverVars, storeVars, lifecycle>>

ApplyComputeWait ==
    /\ ~utilOut.applied
    /\ utilIn.fn = "computeWaitWithJitterMs"
    /\ LET r == computeWaitWithJitterMs(utilIn.baseMs, utilIn.jitterMs, utilIn.random)
       IN  utilOut' = [applied |-> TRUE, threw |-> r.threw, value |-> r.value]
    /\ UNCHANGED <<schedIn, schedOut, mergeIn, mergeOut, mergePrev, utilIn>>
    /\ UNCHANGED client
    /\ UNCHANGED <<serverVars, storeVars, lifecycle>>

NextUtil == ApplyParseDuration \/ ApplyComputeWait

SpecUtil == InitUtil /\ [][NextUtil]_vars

\* ------------------------------------------------------------------------
\* combinePayloads applied to lists of reports drawn from a bounded set
\* ------------------------------------------------------------------------

\* a SourceContribution
Row(source, modelId, providerId, input, output, cost, messages) ==
    [source |-> source, modelId |-> modelId, providerId |-> providerId,
     tokens |-> [input |-> input, output |-> output, cacheRead |-> 0, cacheWrite |-> 0,
                 reasoning |-> 0],
     cost |-> cost, messages |-> messages]

\* a DailyContribution with the given rows
Day(date, rows) ==
    [date |-> date,
     totals |-> [tokens |-> sumTokenValues(SumTokens(rows)), cost |-> SumCost(rows),
                 messages |-> SumMessages(rows)],
     intensity |-> 4,
     tokenBreakdown |-> SumTokens(rows),
     sources |-> rows]

\* a TokenContributionData with the given days
Report(days) ==
    [meta |-> [version |-> "1",
               dateRange |-> [start |-> days[1].date, end |-> days[Len(days)].date]],
     summary |-> [totalTokens |-> 0],
     years |-> <<>>,
     contributions |-> days]

\* the row of ReportA at a higher cost, and a second row that sorts before it
ReportB ==
    Report(<<Day(EpochDate, <<Row("codex", "gpt-5.2-codex", "openai", 5, 1, 68, 4),
                              Row("claude", "claude-opus", "anthropic", 7, 3, 3, 2)>>)>>)

\* two days in two years, the later one first
ReportC ==
    Report(<<Day(EpochDate, <<Row("codex", "gpt-5.2-codex", "openai", 5, 1, 1, 1)>>),
             Day(20251231, <<Row("codex", "gpt-5.2-codex", "openai", 1, 1, 2, 1)>>)>>)

\* names with capitals
ReportD ==
    Report(<<Day(20260101, <<Row("Zed", "GLM-4.6", "openai", 2, 1, 4, 1),
                                Row("claude", "claude-opus", "anthropic", 1, 1, 1, 1),
                                Row("claude", "GLM-4.6", "openai", 1, 0, 1, 1)>>)>>)

\* a day that has a date and no rows
ReportE == Report(<<Day(20260102, <<>>)>>)

\* a day that has a row and no date
ReportF == Report(<<Day(NullDate, <<Row("codex", "gpt-5.2-codex", "openai", 1, 1, 1, 1)>>)>>)

\* the report with other meta, summary and years, and other totals, tokenBreakdown and
\* intensity of each day: the dates and the rows are those of the report
Stale(report) ==
    [meta |-> [version |-> "0", dateRange |-> [start |-> NullDate, end |-> NullDate]],
     summary |-> [totalTokens |-> 99],
     years |-> <<[year |-> 1999, totalTokens |-> 99, totalCost |-> 99,
                  range |-> [start |-> 19990101, end |-> 19990101]]>>,
     contributions |->
         [d \in DOMAIN report.contributions |->
             [date |-> report.contributions[d].date,
              totals |-> [tokens |-> 99, cost |-> 99, messages |-> 99],
              intensity |-> 0,
              tokenBreakdown |-> [input |-> 99, output |-> 0, cacheRead |-> 0,
                                  cacheWrite |-> 0, reasoning |-> 0],
              sources |-> report.contributions[d].sources]]]

\* the reports offered: every row has finite numbers, no report has two days of one
\* date or two rows of one key on a day
MergeReports == {ReportA, ReportB, ReportC, ReportD, ReportE, ReportF, ReportNone}

\* the outcome of combinePayloads(payloads)
Outcome(payloads) ==
    LET message == combineError(payloads)
    IN  [applied |-> TRUE, threw |-> message,
         value |-> IF message = "" THEN combinePayloads(payloads) ELSE ReportNone]

InitMerge ==
    /\ clock = 0
    /\ options = [submitHourUtc |-> SubmitHourUtc, dryRunSubmit |-> FALSE,
                  noAuth |-> FALSE, authToken |-> AuthToken]
    /\ running = FALSE
    /\ bootDate = NullDate
    /\ state = defaultState
    /\ submitInProgress = FALSE
    /\ attempts = [s \in Slots |-> IdleAttempt]
    /\ clientFiles = EmptyMap
    /\ stateFile = <<>>
    /\ submissions = EmptyMap
    /\ dropped = FALSE
    /\ failedDate = NullDate
    /\ calledOn = NullDate
    /\ startedOn = NullDate
    /\ schedIn = [now |-> 0, lastSubmittedDate |-> NullDate, submitHourUtc |-> Num(SubmitHourUtc)]
    /\ schedOut = [applied |-> FALSE, threw |-> FALSE, value |-> FALSE]
    /\ dir = EmptyMap
    /\ inodes = <<>>
    /\ requests = [h \in Handlers |-> IdleRequest]
    /\ sent = NotSent
    /\ accepted = EmptyMap
    /\ arrived = NoArrival
    /\ mergeIn \in UNION {[1..n -> MergeReports] : n \in 0..MaxReports}
    /\ mergeOut = NotMerged
    /\ mergePrev = NoCall
    /\ utilIn = NoUtilCall
    /\ utilOut = NotCalled
    /\ lifecycle = "starting"
    /\ client = NoClient

\* combinePayloads is called on the list
ApplyCombine ==
    /\ ~mergeOut.applied
    /\ mergeOut' = Outcome(mergeIn)
    /\ UNCHANGED <<mergeIn, mergePrev, schedIn, schedOut, utilIn, utilOut>>
    /\ UNCHANGED client
    /\ UNCHANGED <<serverVars, storeVars, lifecycle>>

\* the caller passes the list again with two neighbours exchanged
Reorder ==
    /\ mergeOut.applied
    /\ \E i \in 1..(Len(mergeIn) - 1) :
          /\ mergeIn[i] # mergeIn[i + 1]
          /\ mergeIn' = [mergeIn EXCEPT ![i] = mergeIn[i + 1], ![i + 1] = mergeIn[i]]
    /\ mergePrev' = [payloads |-> mergeIn, outcome |-> mergeOut, parts |-> <<>>, nested |-> FALSE]
    /\ mergeOut' = NotMerged
    /\ UNCHANGED <<schedIn, schedOut, utilIn, utilOut>>
    /\ UNCHANGED client
    /\ UNCHANGED <<serverVars, storeVars, lifecycle>>

\* the caller passes [R, R] after [R]
Repeat ==
    /\ mergeOut.applied
    /\ Len(mergeIn) = 1
    /\ mergeIn' = mergeIn \o mergeIn
    /\ mergePrev' = [payloads |-> mergeIn, outcome |-> mergeOut, parts |-> <<>>, nested |-> FALSE]
    /\ mergeOut' = NotMerged
    /\ UNCHANGED <<schedIn, schedOut, utilIn, utilOut>>
    /\ UNCHANGED client
    /\ UNCHANGED <<serverVars, storeVars, lifecycle>>

\* the caller passes the list again with the derived fields of one report changed
Restate ==
    /\ mergeOut.applied
    /\ \A p \in DOMAIN mergeIn : mergeIn[p] \in MergeReports
    /\ \E i \in DOMAIN mergeIn : mergeIn' = [mergeIn EXCEPT ![i] = Stale(mergeIn[i])]
    /\ mergePrev' = [payloads |-> mergeIn, outcome |-> mergeOut, parts |-> <<>>, nested |-> FALSE]
    /\ mergeOut' = NotMerged
    /\ UNCHANGED <<schedIn, schedOut, utilIn, utilOut>>
    /\ UNCHANGED client
    /\ UNCHANGED <<serverVars, storeVars, lifecycle>>

\* the caller passes the report that was returned, alone or followed by one more report
Nest ==
    /\ mergeOut.applied
    /\ mergeOut.threw = ""
    /\ \A p \in DOMAIN mergeIn : mergeIn[p] \in MergeReports
    /\ Len(mergeIn) < MaxReports
    /\ \E rest \in {<<>>} \cup {<<r>> : r \in MergeReports} :
          mergeIn' = <<mergeOut.value>> \o rest
    /\ mergePrev' = [payloads |-> mergeIn, outcome |-> mergeOut, parts |-> <<>>, nested |-> TRUE]
    /\ mergeOut' = NotMerged
    /\ UNCHANGED <<schedIn, schedOut, utilIn, utilOut>>
    /\ UNCHANGED client
    /\ UNCHANGED <<serverVars, storeVars, lifecycle>>

\* after the list that starts with a returned report, the caller passes the reports that
\* were merged into it, followed by the rest of the list
Flatten ==
    /\ mergeOut.applied
    /\ mergePrev.nested
    /\ mergeIn' = mergePrev.payloads \o Tail(mergeIn)
    /\ mergePrev' = [payloads |-> mergeIn, outcome |-> mergeOut, parts |-> mergePrev.payloads,
                     nested |-> FALSE]
    /\ mergeOut' = NotMerged
    /\ UNCHANGED <<schedIn, schedOut, utilIn, utilOut>>
    /\ UNCHANGED client
    /\ UNCHANGED <<serverVars, storeVars, lifecycle>>

NextMerge == ApplyCombine \/ Reorder \/ Repeat \/ Restate \/ Nest \/ Flatten

SpecMerge == InitMerge /\ [][NextMerge]_vars

\* ------------------------------------------------------------------------
\* src/src/server.ts: the request handler and the files of <dataDir>/clients
\* ------------------------------------------------------------------------

\* sendJson(res, statusCode, data), as the response sent
sendJson(statusCode, error, clientId, at, clients, st) ==
    [status |-> statusCode, error |-> error, clientId |-> clientId, at |-> at,
     clients |-> clients, state |-> st]

\* the catch block of the request handler
SendError(h, message) ==
    /\ sent' = sendJson(IF message = "Unauthorized" THEN 401 ELSE 400, message,
                        <<>>, NullTime, <<>>, defaultState)
    /\ requests' = [requests EXCEPT ![h] = IdleRequest]

\* one write of piece at position i of a file holding text; a write beyond the end
\* leaves zero bytes before it
WriteAt(text, i, piece) ==
    [j \in 1..(IF i > Len(text) THEN i ELSE Len(text)) |->
        IF j = i THEN piece ELSE IF j <= Len(text) THEN text[j] ELSE [piece |-> 0, of |-> NoRecord]]

\* the order of the characters of client ids under localeCompare
CharCollation == <<"_", "-", ".", "0", "a", "b">>

CharRank(c) == CHOOSE i \in 1..Len(CharCollation) : CharCollation[i] = c

\* a.localeCompare(b) < 0 on client ids
RECURSIVE IdBefore(_, _)
IdBefore(a, b) ==
    IF b = <<>> THEN FALSE
    ELSE IF a = <<>> THEN TRUE
    ELSE IF Head(a) # Head(b) THEN CharRank(Head(a)) < CharRank(Head(b))
    ELSE IdBefore(Tail(a), Tail(b))

\* captures.sort((a, b) => a.clientId.localeCompare(b.clientId))
RECURSIVE SortCaptures(_)
SortCaptures(captures) ==
    IF captures = {} THEN <<>>
    ELSE LET first == CHOOSE a \in captures :
                         \A b \in captures \ {a} : IdBefore(a.clientId, b.clientId)
         IN  <<first>> \o SortCaptures(captures \ {first})

\* the clients of the response of GET /status
StatusClients(captures) ==
    LET sorted == SortCaptures(captures)
    IN  [i \in 1..Len(sorted) |->
            [clientId |-> sorted[i].clientId, capturedAt |-> sorted[i].capturedAt,
             receivedAt |-> sorted[i].receivedAt, sourceHost |-> sorted[i].sourceHost]]

\* handlers that will open a file for writing
WillOpen ==
    {h \in Handlers : \/ requests[h].pc \in {"mkdir", "open"}
                      \/ requests[h].pc = "body" /\ requests[h].body \in ValidBodies}

\* a request arrives: the handler up to its first await
HandleRequest(h, route, header, body) ==
    /\ running
    /\ lifecycle = "listening"
    /\ requests[h].pc = "idle"
    /\ \A g \in Handlers : requests[g].pc = "idle" => h <= g
    /\ body # 0 <=> route = "POST /v1/captures"
    /\ IF route = "GET /healthz"
       THEN /\ sent' = sendJson(200, "", <<>>, toISOString(clock), <<>>, defaultState)
            /\ UNCHANGED requests
       ELSE IF route \notin {"GET /status", "POST /v1/captures"}
       THEN /\ sent' = sendJson(404, "Not found", <<>>, NullTime, <<>>, defaultState)
            /\ UNCHANGED requests
       ELSE IF assertAuthorized(header, options.authToken, options.noAuth)
       THEN SendError(h, "Unauthorized")
       ELSE IF route = "GET /status"
       THEN /\ requests' = [requests EXCEPT ![h].pc = "list"]
            /\ sent' = NotSent
       ELSE /\ body \in ValidBodies => Len(inodes) + Cardinality(WillOpen) < MaxWrites
            /\ requests' = [requests EXCEPT ![h].pc = "body", ![h].body = body]
            /\ sent' = NotSent
    /\ arrived' = [route |-> route, header |-> header, body |-> body]
    /\ UNCHANGED <<dir, inodes, accepted>>
    /\ UNCHANGED <<serverVars, pureVars, lifecycle>>

\* readRequestBody returns or throws; then parseUpload, and writeClientCapture up to the
\* mkdir of writeJsonAtomic
BodyDone(h, ok) ==
    /\ requests[h].pc = "body"
    /\ LET body == Body(requests[h].body)
           message == IF ~ok THEN "aborted"
                      ELSE IF body.bytes > MAX_REQUEST_BYTES THEN "Request body too large"
                      ELSE parseUploadError(body.json)
           at == toISOString(clock)
           data == CaptureRecord(parseUpload(body.json, at), at)
       IN  IF message # ""
           THEN SendError(h, message)
           ELSE /\ requests' = [requests EXCEPT ![h].pc = "mkdir", ![h].body = 0,
                                                ![h].data = data,
                                                ![h].name = FileName(data.clientId)]
                /\ sent' = NotSent
    /\ UNCHANGED <<dir, inodes, accepted>>
    /\ arrived' = NoArrival
    /\ UNCHANGED <<serverVars, pureVars, lifecycle>>

\* the mkdir of writeJsonAtomic returns or fails; the temporary name is made and opened
MkdirDone(h, ok) ==
    /\ requests[h].pc = "mkdir"
    /\ IF ok
       THEN /\ requests' = [requests EXCEPT ![h].pc = "open",
                                            ![h].temp = TempName(requests[h].name, clock)]
            /\ sent' = NotSent
       ELSE SendError(h, "EACCES")
    /\ UNCHANGED <<dir, inodes, accepted>>
    /\ arrived' = NoArrival
    /\ UNCHANGED <<serverVars, pureVars, lifecycle>>

\* fs.writeFile has opened the temporary name with flag "w" (created, or truncated), or failed
OpenDone(h, ok) ==
    /\ requests[h].pc = "open"
    /\ LET temp == requests[h].temp
       IN  IF ~ok
           THEN /\ SendError(h, "EMFILE")
                /\ UNCHANGED <<dir, inodes>>
           ELSE IF temp \in DOMAIN dir
           THEN /\ inodes' = [inodes EXCEPT ![dir[temp]] = <<>>]
                /\ requests' = [requests EXCEPT ![h].pc = "write", ![h].fd = dir[temp]]
                /\ sent' = NotSent
                /\ UNCHANGED dir
           ELSE /\ inodes' = Append(inodes, <<>>)
                /\ dir' = (temp :> Len(inodes) + 1) @@ dir
                /\ requests' = [requests EXCEPT ![h].pc = "write", ![h].fd = Len(inodes) + 1]
                /\ sent' = NotSent
    /\ UNCHANGED accepted
    /\ arrived' = NoArrival
    /\ UNCHANGED <<serverVars, pureVars, lifecycle>>

\* one write of fs.writeFile returns or fails; after the last one the file is closed and
\* renamed
WriteDone(h, ok) ==
    /\ requests[h].pc = "write"
    /\ LET r == requests[h]
           text == JSONstringify(r.data)
       IN  IF ~ok
           THEN /\ SendError(h, "EIO")
                /\ UNCHANGED inodes
           ELSE /\ inodes' = [inodes EXCEPT ![r.fd] = WriteAt(inodes[r.fd], r.pos + 1, text[r.pos + 1])]
                /\ requests' = [requests EXCEPT
                                   ![h].pos = r.pos + 1,
                                   ![h].pc = IF r.pos + 1 = Len(text) THEN "rename" ELSE "write"]
                /\ sent' = NotSent
    /\ UNCHANGED <<dir, accepted>>
    /\ arrived' = NoArrival
    /\ UNCHANGED <<serverVars, pureVars, lifecycle>>

\* fs.rename returns or fails; on return the handler sends 202
RenameDone(h, ok) ==
    /\ requests[h].pc = "rename"
    /\ LET r == requests[h]
       IN  IF ~ok
           THEN /\ SendError(h, "EIO")
                /\ UNCHANGED <<dir, accepted>>
           ELSE IF r.temp \notin DOMAIN dir
           THEN /\ SendError(h, "ENOENT")
                /\ UNCHANGED <<dir, accepted>>
           ELSE /\ dir' = (r.name :> dir[r.temp]) @@ [n \in DOMAIN dir \ {r.temp} |-> dir[n]]
                /\ accepted' = (r.name :> r.data) @@ accepted
                /\ sent' = sendJson(202, "", r.data.clientId, toISOString(clock), <<>>, defaultState)
                /\ requests' = [requests EXCEPT ![h] = IdleRequest]
    /\ UNCHANGED inodes
    /\ arrived' = NoArrival
    /\ UNCHANGED <<serverVars, pureVars, lifecycle>>

\* the text that fs.readFile returns for a name
ReadText(name) == inodes[dir[name]]

\* readClientCaptureFiles on <dataDir>/clients, its reads taken at one instant: the
\* parsed files that carry a clientId and a payload
ListedCaptures ==
    {JSONparse(ReadText(n)) : n \in {m \in DOMAIN dir :
        /\ EndsWithJson(m)
        /\ ~ParseThrows(ReadText(m))
        /\ JSONparse(ReadText(m)).clientId # <<>>
        /\ JSONparse(ReadText(m)).payload.t \notin {"null", "undefined"}}}

\* GET /status: readClientCaptureFiles returns or fails, and the handler sends its response
StatusDone(h, ok) ==
    /\ requests[h].pc = "list"
    /\ IF ok
       THEN /\ sent' = sendJson(200, "", <<>>, toISOString(clock), StatusClients(ListedCaptures), state)
            /\ requests' = [requests EXCEPT ![h] = IdleRequest]
       ELSE SendError(h, "EACCES")
    /\ UNCHANGED <<dir, inodes, accepted>>
    /\ arrived' = NoArrival
    /\ UNCHANGED <<serverVars, pureVars, lifecycle>>

\* the process ends while requests are handled, and is started again: the suspended
\* handlers are lost, the files stay
StoreCrash ==
    /\ \E h \in Handlers : requests[h].pc # "idle"
    /\ requests' = [h \in Handlers |-> IdleRequest]
    /\ sent' = NotSent
    /\ UNCHANGED <<dir, inodes, accepted>>
    /\ arrived' = NoArrival
    /\ UNCHANGED <<serverVars, pureVars, lifecycle>>

\* the server is up on an empty data directory, before the submit hour
InitStore ==
    /\ clock = 0
    /\ options = [submitHourUtc |-> SubmitHourUtc, dryRunSubmit |-> FALSE,
                  noAuth |-> FALSE, authToken |-> AuthToken]
    /\ running = TRUE
    /\ bootDate = NullDate
    /\ state = defaultState
    /\ submitInProgress = FALSE
    /\ attempts = [s \in Slots |-> IdleAttempt]
    /\ clientFiles = EmptyMap
    /\ stateFile = <<>>
    /\ submissions = EmptyMap
    /\ dropped = FALSE
    /\ failedDate = NullDate
    /\ calledOn = NullDate
    /\ startedOn = NullDate
    /\ schedIn = [now |-> 0, lastSubmittedDate |-> NullDate, submitHourUtc |-> Num(SubmitHourUtc)]
    /\ schedOut = [applied |-> FALSE, threw |-> FALSE, value |-> FALSE]
    /\ dir = EmptyMap
    /\ inodes = <<>>
    /\ requests = [h \in Handlers |-> IdleRequest]
    /\ sent = NotSent
    /\ accepted = EmptyMap
    /\ arrived = NoArrival
    /\ mergeIn = <<>>
    /\ mergeOut = NotMerged
    /\ mergePrev = NoCall
    /\ utilIn = NoUtilCall
    /\ utilOut = NotCalled
    /\ lifecycle = "listening"
    /\ client = NoClient

\* the steps of the handlers 1..n
HandlerSteps(n) ==
    \/ \E h \in 1..n, ok \in BOOLEAN : BodyDone(h, ok)
    \/ \E h \in 1..n, ok \in BOOLEAN : MkdirDone(h, ok)
    \/ \E h \in 1..n, ok \in BOOLEAN : OpenDone(h, ok)
    \/ \E h \in 1..n, ok \in BOOLEAN : WriteDone(h, ok)
    \/ \E h \in 1..n, ok \in BOOLEAN : RenameDone(h, ok)
    \/ \E h \in 1..n, ok \in BOOLEAN : StatusDone(h, ok)
    \/ StoreCrash

\* concurrent handlers; the requests are valid uploads and GET /status of authorized clients
NextStore ==
    \/ (Advance /\ clock' <= MaxUploadTime)
    \/ \E h \in Handlers : HandleRequest(h, "GET /status", [scheme |-> "Bearer", rest |-> AuthToken], 0)
    \/ \E h \in Handlers, body \in ValidBodies :
          HandleRequest(h, "POST /v1/captures", [scheme |-> "Bearer", rest |-> AuthToken], body)
    \/ HandlerSteps(MaxRequests)

SpecStore == InitStore /\ [][NextStore]_vars

\* the server is up on an empty data directory, with or without auth
InitHttp ==
    /\ clock = 0
    /\ options \in {[submitHourUtc |-> SubmitHourUtc, dryRunSubmit |-> FALSE,
                     noAuth |-> n, authToken |-> t] :
                        n \in BOOLEAN, t \in {AuthToken, NullToken}}
                 \ {[submitHourUtc |-> SubmitHourUtc, dryRunSubmit |-> FALSE,
                     noAuth |-> TRUE, authToken |-> AuthToken]}
    /\ running = TRUE
    /\ bootDate = NullDate
    /\ state = defaultState
    /\ submitInProgress = FALSE
    /\ attempts = [s \in Slots |-> IdleAttempt]
    /\ clientFiles = EmptyMap
    /\ stateFile = <<>>
    /\ submissions = EmptyMap
    /\ dropped = FALSE
    /\ failedDate = NullDate
    /\ calledOn = NullDate
    /\ startedOn = NullDate
    /\ schedIn = [now |-> 0, lastSubmittedDate |-> NullDate, submitHourUtc |-> Num(SubmitHourUtc)]
    /\ schedOut = [applied |-> FALSE, threw |-> FALSE, value |-> FALSE]
    /\ dir = EmptyMap
    /\ inodes = <<>>
    /\ requests = [h \in Handlers |-> IdleRequest]
    /\ sent = NotSent
    /\ accepted = EmptyMap
    /\ arrived = NoArrival
    /\ mergeIn = <<>>
    /\ mergeOut = NotMerged
    /\ mergePrev = NoCall
    /\ utilIn = NoUtilCall
    /\ utilOut = NotCalled
    /\ lifecycle = "listening"
    /\ client = NoClient

\* requests of every kind, with and without a valid token and a valid body, at one
\* instant and one after the other
NextHttp ==
    \/ \E route \in Routes \ {"POST /v1/captures"}, header \in Headers :
          HandleRequest(1, route, header, 0)
    \/ \E header \in Headers, body \in 1..13 :
          /\ IF assertAuthorized(header, options.authToken, options.noAuth)
             THEN body = 1
             ELSE body \in ValidBodies => Len(inodes) + Cardinality(WillOpen) < MaxHttpWrites
          /\ HandleRequest(1, "POST /v1/captures", header, body)
    \/ HandlerSteps(1)

SpecHttp == InitHttp /\ [][NextHttp]_vars

\* ---------------------------------------------------------------------------------------
\* the end of runServer (server.ts, lines 360-373)
\* ---------------------------------------------------------------------------------------

\* SIGINT or SIGTERM arrives while runServer waits at line 365: the promise resolves, the
\* timer is cleared (line 371) and server.close is called (line 372), which stops the
\* listener from accepting connections. Nothing in these lines looks at submitInProgress
\* or at the promise of a maybeSubmit call, which lines 360 and 362 discard with void
Signal ==
    /\ running
    /\ lifecycle = "listening"
    /\ lifecycle' = "draining"
    /\ UNCHANGED <<serverVars, pureVars, storeVars>>

\* the callback of server.close: every connection has ended, the promise of line 372
\* resolves and runServer returns
ServerClosed ==
    /\ lifecycle = "draining"
    /\ \A h \in Handlers : requests[h].pc = "idle"
    /\ lifecycle' = "stopped"
    /\ UNCHANGED <<serverVars, pureVars, storeVars>>

\* the process is started on a data directory that holds one client's snapshot
InitShutdown ==
    /\ clock = 0
    /\ options \in [submitHourUtc : {SubmitHourUtc}, dryRunSubmit : BOOLEAN,
                    noAuth : {FALSE}, authToken : {AuthToken}]
    /\ running = FALSE
    /\ bootDate = NullDate
    /\ state = defaultState
    /\ submitInProgress = FALSE
    /\ attempts = [s \in Slots |-> IdleAttempt]
    /\ clientFiles = (1 :> StoredClientCapture(1, ReportA))
    /\ stateFile = <<>>
    /\ submissions = EmptyMap
    /\ dropped = FALSE
    /\ failedDate = NullDate
    /\ calledOn = NullDate
    /\ startedOn = NullDate
    /\ schedIn = [now |-> 0, lastSubmittedDate |-> NullDate, submitHourUtc |-> Num(SubmitHourUtc)]
    /\ schedOut = [applied |-> FALSE, threw |-> FALSE, value |-> FALSE]
    /\ dir = EmptyMap
    /\ inodes = <<>>
    /\ requests = [h \in Handlers |-> IdleRequest]
    /\ sent = NotSent
    /\ accepted = EmptyMap
    /\ arrived = NoArrival
    /\ mergeIn = <<>>
    /\ mergeOut = NotMerged
    /\ mergePrev = NoCall
    /\ utilIn = NoUtilCall
    /\ utilOut = NotCalled
    /\ lifecycle = "starting"
    /\ client = NoClient

NextShutdown ==
    \/ Start
    \/ Tick
    \/ Advance
    \/ Signal
    \/ ServerClosed
    \/ HandleRequest(1, "GET /status", [scheme |-> "Bearer", rest |-> AuthToken], 0)
    \/ \E ok \in BOOLEAN : StatusDone(1, ok)
    \/ \E s \in Slots, ok \in BOOLEAN : ListDone(s, ok)
    \/ \E s \in Slots, ok \in BOOLEAN, r \in SubmitResponses : SubmitDone(s, ok, r)
    \/ \E s \in Slots, ok \in BOOLEAN : RecordDone(s, ok)
    \/ \E s \in Slots, ok \in BOOLEAN : StateDone(s, ok)
    \/ \E s \in Slots, ok \in BOOLEAN : CatchDone(s, ok)

SpecShutdown == InitShutdown /\ [][NextShutdown]_vars

\* ---------------------------------------------------------------------------------------
\* readClientCaptureFiles and its use by maybeSubmit (server.ts, lines 119-136, 248-252)
\* ---------------------------------------------------------------------------------------

\* the names found in <dataDir>/clients: three client files and the temporary file that
\* an interrupted writeJsonAtomic leaves behind
ListingNames ==
    <<FileName(IdPlain), FileName(<<"a", "-", "b">>), FileName(<<"b", "_">>),
      TempName(FileName(IdPlain), 0)>>

\* what a name can hold: a snapshot (of ReportA or of ReportNone), the first part of a
\* snapshot's text, no text, a record without clientId, a record without payload
FileKinds == {"snapshot", "empty snapshot", "truncated", "no text", "no clientId", "no payload"}

\* the record of a file of the given kind under the given name
FileRecord(name, kind) ==
    CaptureRecord([clientId |-> IF kind = "no clientId" THEN <<>> ELSE name.base,
                   capturedAt |-> toISOString(0),
                   payload |-> IF kind = "no payload" THEN J("null", <<>>)
                               ELSE IF kind = "empty snapshot" THEN AsJson(ReportNone)
                               ELSE AsJson(ReportA),
                   sourceHost |-> <<>>],
                  toISOString(0))

\* the text of that file
FileText(name, kind) ==
    IF kind = "no text" THEN <<>>
    ELSE IF kind = "truncated" THEN <<JSONstringify(FileRecord(name, "snapshot"))[1]>>
    ELSE JSONstringify(FileRecord(name, kind))

\* the payload of a stored snapshot as the report that combinePayloads reads
AsReport(payload) ==
    [meta |-> Get(payload, "meta").v,
     summary |-> Get(payload, "summary").v,
     years |-> Get(payload, "years").v,
     contributions |-> Get(payload, "contributions").v]

\* the server is up, the clients directory holds any of the names, each with any content
InitListing ==
    /\ clock = 0
    /\ options = [submitHourUtc |-> SubmitHourUtc, dryRunSubmit |-> FALSE,
                  noAuth |-> FALSE, authToken |-> AuthToken]
    /\ running = TRUE
    /\ bootDate = NullDate
    /\ state = defaultState
    /\ submitInProgress = FALSE
    /\ attempts = [s \in Slots |-> IdleAttempt]
    /\ clientFiles = EmptyMap
    /\ stateFile = <<>>
    /\ submissions = EmptyMap
    /\ dropped = FALSE
    /\ failedDate = NullDate
    /\ calledOn = NullDate
    /\ startedOn = NullDate
    /\ schedIn = [now |-> 0, lastSubmittedDate |-> NullDate, submitHourUtc |-> Num(SubmitHourUtc)]
    /\ schedOut = [applied |-> FALSE, threw |-> FALSE, value |-> FALSE]
    /\ \E kinds \in [1..Len(ListingNames) -> FileKinds \cup {"absent"}] :
          LET present == SortIds({i \in 1..Len(ListingNames) : kinds[i] # "absent"})
          IN  /\ inodes = [j \in 1..Len(present) |->
                              FileText(ListingNames[present[j]], kinds[present[j]])]
              /\ dir = [n \in {ListingNames[present[j]] : j \in 1..Len(present)} |->
                           CHOOSE j \in 1..Len(present) : ListingNames[present[j]] = n]
    /\ requests = [h \in Handlers |-> IdleRequest]
    /\ sent = NotSent
    /\ accepted = EmptyMap
    /\ arrived = NoArrival
    /\ mergeIn = <<>>
    /\ mergeOut = NotMerged
    /\ mergePrev = NoCall
    /\ utilIn = NoUtilCall
    /\ utilOut = NotCalled
    /\ lifecycle = "listening"
    /\ client = NoClient

\* lines 248-252 of maybeSubmit: the snapshots are listed and their payloads are merged
ListAndMerge ==
    /\ ~utilOut.applied
    /\ LET captures == SortCaptures(ListedCaptures)
           payloads == [i \in 1..Len(captures) |-> AsReport(captures[i].payload)]
       IN  /\ utilOut' = [applied |-> TRUE, threw |-> "", value |-> captures]
           /\ mergeIn' = payloads
           /\ mergeOut' = IF Len(captures) = 0
                          THEN [applied |-> TRUE, threw |-> "No client captures available",
                                value |-> ReportNone]
                          ELSE Outcome(payloads)
    /\ UNCHANGED <<schedIn, schedOut, mergePrev, utilIn>>
    /\ UNCHANGED client
    /\ UNCHANGED <<serverVars, storeVars, lifecycle>>

NextListing == ListAndMerge

SpecListing == InitListing /\ [][NextListing]_vars

\* ---------------------------------------------------------------------------------------
\* mode-args.ts (src/unnamed/part_002) and its use by main (cli.ts, lines 409-427)
\* ---------------------------------------------------------------------------------------

\* the arguments offered after the mode: the flags that bear on authorization, one flag
\* with a value and one without that do not, a value, and the empty string.  The flags
\* --port, --data-dir, --submit-hour-utc, --check-interval, --client-id, --interval,
\* --jitter and --request-timeout are not offered, so these options keep their defaults
ArgTokens == {"--auth-token", "--no-auth", "--dry-run-submit", "--once", "--host", "secret", ""}

\* process.env.TK_PROXY_AUTH_TOKEN when the process starts
EnvTokens == {Undefined, "", "envtoken"}

\* randomBytes(24).toString("hex"): 48 hexadecimal digits
GeneratedToken == "generated"

ServerUrl == "http://server"

RECURSIVE ArgLists(_)
ArgLists(n) ==
    IF n = 0 THEN {<<>>}
    ELSE ArgLists(n - 1) \cup {Append(l, t) : l \in {m \in ArgLists(n - 1) : Len(m) = n - 1}, t \in ArgTokens}

\* argv[i] of JavaScript, whose indices start at 0
ArgAt(argv, i) == IF i + 1 <= Len(argv) THEN argv[i + 1] ELSE Undefined

\* !value
Falsy(value) == value = Undefined \/ value = ""

\* the loop of parseServerModeArgs from index i on (lines 47-100)
RECURSIVE ServerArgsFrom(_, _, _)
ServerArgsFrom(argv, i, acc) ==
    IF i >= Len(argv) THEN acc
    ELSE LET token == ArgAt(argv, i)
             value == ArgAt(argv, i + 1)
         IN  IF token = "--host"
             THEN IF Falsy(value) THEN [acc EXCEPT !.threw = "Missing value for --host"]
                  ELSE ServerArgsFrom(argv, i + 2, [acc EXCEPT !.host = value])
             ELSE IF token = "--auth-token"
             THEN IF Falsy(value) THEN [acc EXCEPT !.threw = "Missing value for --auth-token"]
                  ELSE ServerArgsFrom(argv, i + 2, [acc EXCEPT !.authToken = value])
             ELSE IF token = "--no-auth"
             THEN ServerArgsFrom(argv, i + 1, [acc EXCEPT !.noAuth = TRUE])
             ELSE IF token = "--dry-run-submit"
             THEN ServerArgsFrom(argv, i + 1, [acc EXCEPT !.dryRunSubmit = TRUE])
             ELSE [acc EXCEPT !.threw = "Unknown --server option"]

\* what a call that throws leaves in place of a value
NoArgs == [noAuth |-> FALSE, authToken |-> J("undefined", <<>>), authTokenGenerated |-> FALSE]

\* mutant of parseServerModeArgs: no token is generated
parseServerModeArgs_NoGeneration(argv, env) ==
    LET r == ServerArgsFrom(argv, 1, [host |-> "0.0.0.0", authToken |-> Coalesce(env, ""),
                                      noAuth |-> FALSE, dryRunSubmit |-> FALSE, threw |-> ""])
        token == IF r.noAuth THEN "" ELSE r.authToken
    IN  IF r.threw # "" THEN [threw |-> r.threw, value |-> NoArgs, env |-> env]
        ELSE [threw |-> "",
              value |-> [host |-> r.host, submitHourUtc |-> SubmitHourUtc,
                         authToken |-> IF r.noAuth THEN J("null", <<>>) ELSE J("string", token),
                         authTokenGenerated |-> FALSE,
                         noAuth |-> r.noAuth, dryRunSubmit |-> r.dryRunSubmit],
              env |-> IF ~r.noAuth /\ token # "" THEN token ELSE env]

\* parseServerModeArgs(argv) in a process whose TK_PROXY_AUTH_TOKEN is env: what it throws
\* or returns, and TK_PROXY_AUTH_TOKEN afterwards
parseServerModeArgs(argv, env) ==
    LET r == ServerArgsFrom(argv, 1, [host |-> "0.0.0.0", authToken |-> Coalesce(env, ""),
                                      noAuth |-> FALSE, dryRunSubmit |-> FALSE, threw |-> ""])
        given == IF r.noAuth THEN "" ELSE r.authToken
        generated == ~r.noAuth /\ given = ""
        token == IF generated THEN GeneratedToken ELSE given
    IN  IF r.threw # "" THEN [threw |-> r.threw, value |-> NoArgs, env |-> env]
        ELSE [threw |-> "",
              value |-> [host |-> r.host, submitHourUtc |-> SubmitHourUtc,
                         authToken |-> IF r.noAuth THEN J("null", <<>>) ELSE J("string", token),
                         authTokenGenerated |-> generated,
                         noAuth |-> r.noAuth, dryRunSubmit |-> r.dryRunSubmit],
              env |-> IF ~r.noAuth /\ token # "" THEN token ELSE env]

\* the loop of parseClientModeArgs from index i on (lines 147-193)
RECURSIVE ClientArgsFrom(_, _, _)
ClientArgsFrom(argv, i, acc) ==
    IF i >= Len(argv) THEN acc
    ELSE LET token == ArgAt(argv, i)
             value == ArgAt(argv, i + 1)
         IN  IF token = "--auth-token"
             THEN IF Falsy(value) THEN [acc EXCEPT !.threw = "Missing value for --auth-token"]
                  ELSE ClientArgsFrom(argv, i + 2, [acc EXCEPT !.authToken = value])
             ELSE IF token = "--no-auth"
             THEN ClientArgsFrom(argv, i + 1, [acc EXCEPT !.noAuth = TRUE])
             ELSE IF token = "--once"
             THEN ClientArgsFrom(argv, i + 1, [acc EXCEPT !.once = TRUE])
             ELSE [acc EXCEPT !.threw = "Unknown --client option"]

\* parseClientModeArgs(argv) in a process whose TK_PROXY_AUTH_TOKEN is env
parseClientModeArgs(argv, env) ==
    IF Falsy(ArgAt(argv, 1))
    THEN [threw |-> "Missing server URL", value |-> NoArgs, env |-> env]
    ELSE LET r == ClientArgsFrom(argv, 2, [authToken |-> Coalesce(env, ""), noAuth |-> FALSE,
                                           once |-> FALSE, threw |-> ""])
         IN  IF r.threw # "" THEN [threw |-> r.threw, value |-> NoArgs, env |-> env]
             ELSE IF ~r.noAuth /\ r.authToken = ""
             THEN [threw |-> "Missing auth token", value |-> NoArgs, env |-> env]
             ELSE [threw |-> "",
                   value |-> [serverUrl |-> ArgAt(argv, 1),
                              authToken |-> IF r.noAuth THEN J("null", <<>>)
                                            ELSE J("string", r.authToken),
                              authTokenGenerated |-> FALSE,
                              noAuth |-> r.noAuth, once |-> r.once],
                   env |-> env]

\* the calls made by main
ArgsCalls ==
    [fn : {"parseServerModeArgs"}, argv : {<<"--server">> \o l : l \in ArgLists(MaxArgs)},
     env : EnvTokens]
    \cup [fn : {"parseClientModeArgs"},
          argv : {<<"--client">>} \cup {<<"--client", ServerUrl>> \o l : l \in ArgLists(MaxArgs)},
          env : EnvTokens]

\* a process is started with some arguments and some environment, on an empty data directory
InitArgs ==
    /\ clock = 0
    /\ options = [submitHourUtc |-> SubmitHourUtc, dryRunSubmit |-> FALSE,
                  noAuth |-> FALSE, authToken |-> NullToken]
    /\ running = FALSE
    /\ bootDate = NullDate
    /\ state = defaultState
    /\ submitInProgress = FALSE
    /\ attempts = [s \in Slots |-> IdleAttempt]
    /\ clientFiles = EmptyMap
    /\ stateFile = <<>>
    /\ submissions = EmptyMap
    /\ dropped = FALSE
    /\ failedDate = NullDate
    /\ calledOn = NullDate
    /\ startedOn = NullDate
    /\ schedIn = [now |-> 0, lastSubmittedDate |-> NullDate, submitHourUtc |-> Num(SubmitHourUtc)]
    /\ schedOut = [applied |-> FALSE, threw |-> FALSE, value |-> FALSE]
    /\ dir = EmptyMap
    /\ inodes = <<>>
    /\ requests = [h \in Handlers |-> IdleRequest]
    /\ sent = NotSent
    /\ accepted = EmptyMap
    /\ arrived = NoArrival
    /\ mergeIn = <<>>
    /\ mergeOut = NotMerged
    /\ mergePrev = NoCall
    /\ utilIn \in ArgsCalls
    /\ utilOut = NotCalled
    /\ lifecycle = "starting"
    /\ client = NoClient

\* main in mode --server up to the call of runServer (cli.ts, lines 409-418): the options
\* of the server are the ones that parseServerModeArgs returns
ServerMode ==
    /\ ~utilOut.applied
    /\ utilIn.fn = "parseServerModeArgs"
    /\ LET r == parseServerModeArgs(utilIn.argv, utilIn.env)
       IN  /\ utilOut' = [applied |-> TRUE, threw |-> r.threw, value |-> r.value, env |-> r.env]
           /\ options' = IF r.threw # "" THEN options
                         ELSE [submitHourUtc |-> r.value.submitHourUtc,
                               dryRunSubmit |-> r.value.dryRunSubmit,
                               noAuth |-> r.value.noAuth,
                               authToken |-> IF r.value.authToken.t = "null" THEN NullToken
                                             ELSE r.value.authToken.v]
    /\ UNCHANGED <<clock, running, bootDate, state, submitInProgress, attempts, clientFiles,
                   stateFile, submissions, dropped, failedDate, calledOn, startedOn>>
    /\ UNCHANGED <<schedIn, schedOut, mergeIn, mergeOut, mergePrev, utilIn>>
    /\ UNCHANGED client
    /\ UNCHANGED <<storeVars, lifecycle>>

\* main in mode --client up to the call of runClient (cli.ts, lines 421-427)
ClientMode ==
    /\ ~utilOut.applied
    /\ utilIn.fn = "parseClientModeArgs"
    /\ LET r == parseClientModeArgs(utilIn.argv, utilIn.env)
       IN  utilOut' = [applied |-> TRUE, threw |-> r.threw, value |-> r.value, env |-> r.env]
    /\ UNCHANGED <<schedIn, schedOut, mergeIn, mergeOut, mergePrev, utilIn>>
    /\ UNCHANGED client
    /\ UNCHANGED <<serverVars, storeVars, lifecycle>>

\* runServer is called when parseServerModeArgs has returned
RunServerMode ==
    /\ utilIn.fn = "parseServerModeArgs"
    /\ utilOut.applied
    /\ utilOut.threw = ""
    /\ Start

NextArgs ==
    \/ ServerMode
    \/ ClientMode
    \/ RunServerMode
    \/ \E route \in {"GET /healthz", "GET /status"}, header \in Headers :
          HandleRequest(1, route, header, 0)
    \/ \E ok \in BOOLEAN : StatusDone(1, ok)

SpecArgs == InitArgs /\ [][NextArgs]_vars

\* ---------------------------------------------------------------------------------------
\* src/src/client.ts: runClient, with sleep of schedule.ts (times in units of 1000 ms)
\* ---------------------------------------------------------------------------------------

\* the largest delay that setTimeout takes: 2^31 - 1 ms, in whole units
TIMEOUT_MAX == 2147483

\* sleep(ms): the delay after which setTimeout(resolve, ms) calls back.  A delay above
\* 2^31 - 1 ms, or below 1 ms, is set to 1 ms by the timer, which is 0 in the units here
sleep(ms) == IF ms > TIMEOUT_MAX \/ ms < 1 THEN 0 ELSE ms

\* what fetch and the check of response.ok can come to in uploadCapture
UploadResults == {"2xx", "non-2xx", "network error", "abort"}

\* --interval and --jitter as parseDurationMs returns them: 1s, 4h (the default) and 25d;
\* 1s and 1h (the default)
ClientOptions ==
    [intervalMs : {parseDurationMs(<<"1", "s">>).value, parseDurationMs(<<"4", "h">>).value,
                   parseDurationMs(<<"2", "5", "d">>).value},
     jitterMs : {parseDurationMs(<<"1", "s">>).value, parseDurationMs(<<"1", "h">>).value},
     once : BOOLEAN]

\* no client runs yet
InitClient ==
    /\ clock = 0
    /\ options = [submitHourUtc |-> SubmitHourUtc, dryRunSubmit |-> FALSE,
                  noAuth |-> FALSE, authToken |-> AuthToken]
    /\ running = FALSE
    /\ bootDate = NullDate
    /\ state = defaultState
    /\ submitInProgress = FALSE
    /\ attempts = [s \in Slots |-> IdleAttempt]
    /\ clientFiles = EmptyMap
    /\ stateFile = <<>>
    /\ submissions = EmptyMap
    /\ dropped = FALSE
    /\ failedDate = NullDate
    /\ calledOn = NullDate
    /\ startedOn = NullDate
    /\ schedIn = [now |-> 0, lastSubmittedDate |-> NullDate, submitHourUtc |-> Num(SubmitHourUtc)]
    /\ schedOut = [applied |-> FALSE, threw |-> FALSE, value |-> FALSE]
    /\ dir = EmptyMap
    /\ inodes = <<>>
    /\ requests = [h \in Handlers |-> IdleRequest]
    /\ sent = NotSent
    /\ accepted = EmptyMap
    /\ arrived = NoArrival
    /\ mergeIn = <<>>
    /\ mergeOut = NotMerged
    /\ mergePrev = NoCall
    /\ utilIn = NoUtilCall
    /\ utilOut = NotCalled
    /\ lifecycle = "starting"
    /\ client = NoClient

ClientFrame ==
    /\ UNCHANGED <<schedIn, schedOut, mergeIn, mergeOut, mergePrev, utilIn, utilOut>>
    /\ UNCHANGED <<serverVars, storeVars, lifecycle>>

\* the head of the loop (line 76): the loop ends, or a cycle starts and runs up to the
\* await of runTokscaleGraph
LoopHead(c) ==
    IF c.shouldStop THEN [c EXCEPT !.pc = "returned"]
    ELSE [c EXCEPT !.pc = "capture", !.cycles = c.cycles + 1]

\* lines 96-98, after the try statement: the loop is left, or the wait is computed and
\* sleep is called
AfterCycle(c, random) ==
    IF c.options.once THEN [c EXCEPT !.pc = "returned"]
    ELSE LET wait == computeWaitWithJitterMs(c.options.intervalMs, c.options.jitterMs, random)
         IN  IF wait.threw # "" THEN [c EXCEPT !.pc = "threw"]
             ELSE [c EXCEPT !.pc = "sleep", !.waitMs = wait.value, !.slept = sleep(wait.value)]

\* runClient is called (lines 61-76)
RunClient(opts) ==
    /\ client.pc = "off"
    /\ client' = LoopHead([NoClient EXCEPT !.options = opts])
    /\ ClientFrame

\* SIGINT or SIGTERM: requestStop
RequestStop ==
    /\ client.pc \in {"capture", "upload", "sleep"}
    /\ ~client.shouldStop
    /\ client' = [client EXCEPT !.shouldStop = TRUE]
    /\ ClientFrame

\* runTokscaleGraph returns a payload, and uploadCapture runs up to its await of fetch,
\* or it throws, and the catch block logs the failure
CaptureDone(ok, random) ==
    /\ client.pc = "capture"
    /\ client' = IF ok THEN [client EXCEPT !.pc = "upload"]
                 ELSE AfterCycle([client EXCEPT !.failures = client.failures + 1], random)
    /\ ClientFrame

\* uploadCapture returns, or throws (a response that is not ok, a network error, the
\* abort at the timeout) and the catch block logs the failure
UploadDone(result, random) ==
    /\ client.pc = "upload"
    /\ client' = AfterCycle(IF result = "2xx" THEN client
                            ELSE [client EXCEPT !.failures = client.failures + 1], random)
    /\ ClientFrame

\* the timer of sleep calls back, and the loop goes on at its head
SleepDone ==
    /\ client.pc = "sleep"
    /\ client.cycles < MaxCycles \/ client.shouldStop
    /\ client' = LoopHead(client)
    /\ ClientFrame

NextClient ==
    \/ \E opts \in ClientOptions : RunClient(opts)
    \/ RequestStop
    \/ \E ok \in BOOLEAN, random \in 0..(RandomSteps - 1) : CaptureDone(ok, random)
    \/ \E result \in UploadResults, random \in 0..(RandomSteps - 1) : UploadDone(result, random)
    \/ SleepDone

SpecClient == InitClient /\ [][NextClient]_vars


\* ------------------------------------------------------------------------
\* Properties
\* ------------------------------------------------------------------------

\* steps of an invocation of maybeSubmit in slot s
AttemptStarts(s) == attempts[s].pc = "idle" /\ attempts'[s].pc = "list"

CallSucceeds(s) == attempts[s].pc = "submit" /\ attempts'[s].pc = "record"

RecordWritten(s) == attempts[s].pc = "record" /\ attempts'[s].pc = "state"

AttemptSucceeds(s) == attempts[s].pc = "state" /\ attempts'[s].pc = "idle" /\ running'

AttemptFails(s) == attempts[s].pc = "catch" /\ attempts'[s].pc = "idle" /\ running'

AttemptDate(s) == utcDateString(attempts[s].now)

InFlight == {s \in Slots : attempts[s].pc # "idle"}

HourReached == getUTCHours(clock) >= options.submitHourUtc

SameSubmission(a, b) ==
    /\ a.lastSubmittedDate = b.lastSubmittedDate
    /\ a.lastSubmittedAt = b.lastSubmittedAt
    /\ a.lastSubmissionId = b.lastSubmissionId

NoCapturesText == "No client captures available"

\* C1: on every UTC calendar day at most one call of the collaborator succeeds: a call
\* never succeeds on the day of an earlier successful call.
C1_OneSuccessfulCallPerDay ==
    [][\A s \in Slots : CallSucceeds(s) => utcDateString(clock) # calledOn]_vars

\* C2 (as stated): at most one attempt is started per UTC calendar day: no attempt is
\* started on the day of an earlier start.
C2_OneAttemptPerDay ==
    [][\A s \in Slots : AttemptStarts(s) => AttemptDate(s)' # startedOn]_vars

\* C2 (amended): an attempt is started on UTC date D only while neither the in-memory nor
\* the persisted lastSubmittedDate is D.
C2_NoAttemptOnSubmittedDay ==
    [][\A s \in Slots : AttemptStarts(s) =>
          /\ state'.lastSubmittedDate # AttemptDate(s)'
          /\ PersistedDate(stateFile') # AttemptDate(s)']_vars

\* C2 witness: a second attempt of the same day is in flight after a failed one.
C2_Witness ==
    \E s \in Slots : attempts[s].pc = "list" /\ failedDate = AttemptDate(s)

\* C3: a process that read lastSubmittedDate = D from state.json at startup starts no
\* attempt at an instant whose UTC date is D.
C3_GateSurvivesRestart ==
    [][\A s \in Slots : AttemptStarts(s) => bootDate' # AttemptDate(s)']_vars

\* C3 witness: a process started from a state.json holding today's date is past the submit
\* hour with its startup check made and no attempt started.
C3_Witness ==
    /\ running
    /\ bootDate = utcDateString(clock)
    /\ HourReached
    /\ InFlight = {}

\* C4: at most one attempt is in flight; a call of maybeSubmit made while an attempt is
\* outstanding changes nothing (but the history of its being dropped), and an attempt
\* starts only when none is in flight.
C4_SingleAttemptInFlight ==
    /\ [](Cardinality(InFlight) <= 1)
    /\ [][dropped' # dropped /\ dropped' =>
             /\ InFlight # {}
             /\ UNCHANGED <<clock, options, running, bootDate, state, submitInProgress, attempts,
                            clientFiles, stateFile, submissions, failedDate, calledOn, startedOn>>]_vars
    /\ [][\A s \in Slots : AttemptStarts(s) => InFlight = {}]_vars

\* C4 witness: an attempt is in flight and a call of maybeSubmit has been dropped meanwhile.
C4_Witness == InFlight # {} /\ dropped

\* C5: shouldRunDailySubmit throws exactly for an hour that is not an integer in [0,23];
\* otherwise it is false before the hour, and from the hour on it is true exactly when
\* lastSubmittedDate differs from now's UTC date.
C5_ShouldRunDailySubmit ==
    schedOut.applied =>
        LET hour == schedIn.submitHourUtc
            iso == toISOString(schedIn.now)
        IN  IF hour.frac \/ hour.n < 0 \/ hour.n > 23
            THEN schedOut.threw
            ELSE /\ ~schedOut.threw
                 /\ iso.hour < hour.n => ~schedOut.value
                 /\ iso.hour >= hour.n => (schedOut.value <=> schedIn.lastSubmittedDate # iso.date)

\* C5 witness: the date of the previous day re-opens the gate exactly at the hour.
C5_Witness ==
    /\ schedOut.applied
    /\ schedOut.value
    /\ schedIn.lastSubmittedDate = toISOString(schedIn.now).date - 1
    /\ ~schedIn.submitHourUtc.frac
    /\ schedIn.submitHourUtc.n = toISOString(schedIn.now).hour

\* C6: when an attempt fails, lastSubmittedDate, lastSubmittedAt and lastSubmissionId are,
\* in memory and in state.json, what they were when the attempt started.
C6_FailureKeepsSubmission ==
    [][\A s \in Slots : AttemptFails(s) =>
          /\ SameSubmission(state', attempts[s].preState)
          /\ SameSubmission(readState(stateFile'), readState(attempts[s].preFile))]_vars

\* C7: after an attempt of UTC date D has failed, a timer tick on D, at or after the submit
\* hour and with no attempt in flight, starts a new attempt.
C7_TickRetriesFailedAttempt ==
    [](running /\ InFlight = {} /\ failedDate = utcDateString(clock) /\ HourReached
         => ENABLED (Tick /\ \E s \in Slots : AttemptStarts(s)))

\* C8 (as stated): an attempt that finds no snapshots leaves the state, in memory and in
\* state.json, exactly as it was when the attempt started.
C8_NoCapturesLeavesState ==
    [][\A s \in Slots :
          (AttemptFails(s) /\ attempts[s].toWrite.lastSubmitError.message = NoCapturesText) =>
              /\ state' = attempts[s].preState
              /\ stateFile' = attempts[s].preFile]_vars

\* C8 (amended): an attempt that finds no snapshots leaves lastSubmittedDate,
\* lastSubmittedAt and lastSubmissionId in memory as they were and sets lastSubmitError to
\* the "No client captures available" message; state.json is left untouched or becomes
\* that in-memory state.
C8_NoCapturesRecordsError ==
    [][\A s \in Slots :
          (AttemptFails(s) /\ attempts[s].toWrite.lastSubmitError.message = NoCapturesText) =>
              /\ SameSubmission(state', attempts[s].preState)
              /\ state'.lastSubmitError.message = NoCapturesText
              /\ stateFile' = attempts[s].preFile \/ stateFile' = <<state'>>]_vars

\* C8 witness: an attempt has ended for want of snapshots and its error is persisted.
C8_Witness ==
    /\ running
    /\ InFlight = {}
    /\ failedDate # NullDate
    /\ state.lastSubmitError.message = NoCapturesText
    /\ stateFile = <<state>>

\* C9: in dry-run mode the collaborator is never called; the record write that an attempt
\* completes leaves the record of the attempt's date marked dry-run with only the summary
\* of the merged payload, and then the in-memory state has that date and no error; an
\* attempt that ends without error leaves that state in state.json.
C9_DryRun ==
    /\ [](options.dryRunSubmit => calledOn = NullDate /\ \A s \in Slots : attempts[s].pc # "submit")
    /\ [][options.dryRunSubmit => \A s \in Slots :
            /\ RecordWritten(s) =>
                 /\ AttemptDate(s) \in DOMAIN submissions'
                 /\ submissions'[AttemptDate(s)] =
                       [submittedDate |-> AttemptDate(s),
                        result |-> [mode |-> "dry-run",
                                    response |-> [summary |-> attempts[s].payload.summary]],
                        payload |-> attempts[s].payload]
                 /\ state'.lastSubmittedDate = AttemptDate(s)
                 /\ state'.lastSubmitError = NullError
            /\ AttemptSucceeds(s) =>
                 /\ state'.lastSubmittedDate = AttemptDate(s)
                 /\ state'.lastSubmitError = NullError
                 /\ stateFile' = <<state'>>
                 /\ AttemptDate(s) \in DOMAIN submissions'
                 /\ submissions'[AttemptDate(s)].result.mode = "dry-run"]_vars

\* C9 witness: a dry-run attempt of today has ended without error.
C9_Witness ==
    /\ options.dryRunSubmit
    /\ running
    /\ InFlight = {}
    /\ state.lastSubmittedDate = utcDateString(clock)
    /\ state.lastSubmitError = NullError
    /\ stateFile = <<state>>
    /\ utcDateString(clock) \in DOMAIN submissions

\* C10: in live mode the record write that follows a successful call leaves the record of
\* the attempt's date holding the collaborator's response, and then the in-memory state has
\* that date, the returned id (null if none) and no error; an attempt that ends without
\* error leaves that state in state.json.
C10_LiveSuccess ==
    [][~options.dryRunSubmit => \A s \in Slots :
          LET id == IF attempts[s].response.submissionId = Undefined
                    THEN NullId ELSE attempts[s].response.submissionId
          IN  /\ RecordWritten(s) =>
                   /\ attempts[s].response \in SubmitResponses
                   /\ AttemptDate(s) \in DOMAIN submissions'
                   /\ submissions'[AttemptDate(s)] =
                         [submittedDate |-> AttemptDate(s),
                          result |-> [mode |-> "submit", response |-> attempts[s].response],
                          payload |-> attempts[s].payload]
                   /\ state'.lastSubmittedDate = AttemptDate(s)
                   /\ state'.lastSubmissionId = id
                   /\ state'.lastSubmitError = NullError
              /\ AttemptSucceeds(s) =>
                   /\ state'.lastSubmittedDate = AttemptDate(s)
                   /\ state'.lastSubmissionId = id
                   /\ state'.lastSubmitError = NullError
                   /\ stateFile' = <<state'>>
                   /\ submissions'[AttemptDate(s)].result.mode = "submit"]_vars

\* C10 witness: a live attempt of today has ended without error on a response without id.
C10_Witness ==
    /\ ~options.dryRunSubmit
    /\ running
    /\ InFlight = {}
    /\ state.lastSubmittedDate = utcDateString(clock)
    /\ state.lastSubmissionId = NullId
    /\ state.lastSubmitError = NullError
    /\ stateFile = <<state>>
    /\ utcDateString(clock) \in DOMAIN submissions
    /\ submissions[utcDateString(clock)].result = LiveResult([submissionId |-> Undefined])

\* ------------------------------------------------------------------------
\* Properties of the request handler and of the files of <dataDir>/clients
\* ------------------------------------------------------------------------

\* the files of clients, as readClientCaptureFiles selects them
ClientNames == {n \in DOMAIN dir : EndsWithJson(n)}

\* the text is the whole text of one record
WholeText(text) == ~ParseThrows(text)

\* C11: a read of a client's file, at any instant and whatever writes are under way,
\* returns the whole text of one write: never a truncated or mixed text.
C11_ReadsSeeWholeFiles ==
    \A n \in ClientNames : WholeText(ReadText(n))

\* C12: a write through writeJsonAtomic that has not renamed (it is under way, fails, or
\* is interrupted by the end of the process) changes the text of no client file and
\* creates none.
C12_UnfinishedWriteKeepsTarget ==
    [][\A h \in Handlers :
          (/\ requests[h].pc \in {"mkdir", "open", "write", "rename"}
           /\ requests'[h] # requests[h]
           /\ sent'.status # 202) =>
              /\ ClientNames' = ClientNames
              /\ \A n \in ClientNames : ReadText(n)' = ReadText(n)]_vars

\* C13: when no upload is under way, there is exactly one file per sanitized client id
\* whose upload was accepted, and it holds the record of the upload of that id whose
\* rename came last.
C13_LastAcceptedUploadIsStored ==
    (\A h \in Handlers : requests[h].pc = "idle") =>
        /\ ClientNames = DOMAIN accepted
        /\ \A n \in ClientNames :
              /\ WholeText(ReadText(n))
              /\ JSONparse(ReadText(n)) = accepted[n]
              /\ n = FileName(accepted[n].clientId)

\* C14: with auth enabled, a request to POST /v1/captures or GET /status whose bearer
\* token is absent or is not the configured token is answered 401, starts no handler
\* work and leaves the stored snapshots, the submission state and the submission records
\* unchanged; GET /healthz is answered 200 whatever the header.
C14_UnauthorizedIsRejected ==
    [][LET PresentsToken(header) ==
               /\ header.scheme \in {"Bearer", "BEARER"}
               /\ header.rest # ""
               /\ header.rest = options.authToken
           Guarded == {"POST /v1/captures", "GET /status"}
       IN  arrived' # NoArrival =>
              /\ arrived'.route = "GET /healthz" => sent'.status = 200
              /\ (/\ ~options.noAuth
                  /\ arrived'.route \in Guarded
                  /\ ~PresentsToken(arrived'.header)) =>
                    /\ sent'.status = 401
                    /\ requests' = requests
                    /\ UNCHANGED <<dir, inodes, accepted, clientFiles, state, stateFile,
                                   submissions>>]_vars

\* C14 witness: an upload with a token that differs from the configured one in one letter
\* has been answered 401 while a snapshot is stored.
C14_Witness ==
    /\ arrived.route = "POST /v1/captures"
    /\ arrived.header = [scheme |-> "Bearer", rest |-> "Secret"]
    /\ options.authToken = AuthToken
    /\ sent.status = 401
    /\ ClientNames # {}

\* C15: an authorized POST /v1/captures whose body fails validation never reaches the
\* write: the step of its handler that follows the reading of the body ends the handler,
\* leaves the files of the store and their texts as they are, and answers 400.  The
\* failing bodies of the model: not JSON (5), not an object (6, and the array 7),
\* clientId missing (8), empty after trim (9) or not a string (10), no report (11), and
\* above the size ceiling (13).
C15_InvalidUploadWritesNothing ==
    [][\A h \in Handlers :
          (/\ requests[h].pc = "body"
           /\ requests[h].body \in {5, 6, 7, 8, 9, 10, 11, 13}
           /\ requests'[h] # requests[h]) =>
              /\ requests'[h] = IdleRequest
              /\ UNCHANGED <<dir, inodes, accepted>>
              /\ sent' # NotSent => sent'.status = 400]_vars

\* C15 witness: an upload above the size ceiling has been answered 400 while the snapshot
\* stored before it is in place.
C15_Witness ==
    /\ sent.status = 400
    /\ sent.error = "Request body too large"
    /\ ClientNames # {}
    /\ \A n \in ClientNames : WholeText(ReadText(n)) /\ JSONparse(ReadText(n)) = accepted[n]

\* C16: a 202 is sent only when the snapshot is stored under the sanitized client id, and
\* the receivedAt of the response is the receivedAt stored in that snapshot.
C16_AcceptedAfterStored ==
    [][sent'.status = 202 =>
          LET n == FileName(sent'.clientId)
          IN  /\ n \in ClientNames'
              /\ WholeText(inodes'[dir'[n]])
              /\ JSONparse(inodes'[dir'[n]]).receivedAt = sent'.at]_vars

\* ------------------------------------------------------------------------
\* properties of combinePayloads
\* ------------------------------------------------------------------------

\* C17: the outcome of combinePayloads on a permutation of a list is the outcome on the
\* list: the same error, or the same contributions, summary and years.
C17_PermutationInvariant ==
    LET Occurrences(seq, r) == Cardinality({i \in 1..Len(seq) : seq[i] = r})
        IsPermutation(a, b) ==
            Len(a) = Len(b) /\ \A r \in MergeReports : Occurrences(a, r) = Occurrences(b, r)
        before == mergePrev.outcome
    IN  (before.applied /\ mergeOut.applied /\ IsPermutation(mergeIn, mergePrev.payloads)) =>
           /\ mergeOut.threw = before.threw
           /\ mergeOut.value.contributions = before.value.contributions
           /\ mergeOut.value.summary = before.value.summary
           /\ mergeOut.value.years = before.value.years

\* C18: for each key (date, source, modelId, providerId) of an input row of a day that
\* has a date the output has
\* exactly one row, each of its seven fields is the sum of the field over the input rows
\* of that key (the Number nearest to it), and the row of a key that has one input row is
\* that row.  Input rows are <<report, day, row>> positions, output rows <<day, row>>.
C18_OneRowPerKeyWithSums ==
    LET InputRows ==
            UNION {UNION {{<<p, d, j>> : j \in 1..Len(mergeIn[p].contributions[d].sources)} :
                             d \in {e \in 1..Len(mergeIn[p].contributions) :
                                       mergeIn[p].contributions[e].date # NullDate}} :
                      p \in 1..Len(mergeIn)}
        InputRow(t) == mergeIn[t[1]].contributions[t[2]].sources[t[3]]
        InputKey(t) == <<mergeIn[t[1]].contributions[t[2]].date>> \o RowKey(InputRow(t))
        OutputRows ==
            UNION {{<<d, j>> : j \in 1..Len(mergeOut.value.contributions[d].sources)} :
                      d \in 1..Len(mergeOut.value.contributions)}
        OutputRow(o) == mergeOut.value.contributions[o[1]].sources[o[2]]
        OutputKey(o) == <<mergeOut.value.contributions[o[1]].date>> \o RowKey(OutputRow(o))
        Fields == {"input", "output", "cacheRead", "cacheWrite", "reasoning", "cost", "messages"}
        Field(row, f) == IF f \in {"cost", "messages"} THEN row[f] ELSE row.tokens[f]
        RECURSIVE SumOf(_, _)
        SumOf(S, f) ==
            IF S = {} THEN 0
            ELSE LET t == CHOOSE x \in S : TRUE
                 IN  Field(InputRow(t), f) + SumOf(S \ {t}, f)
    IN  (mergeOut.applied /\ mergeOut.threw = "") =>
            \A k \in {InputKey(t) : t \in InputRows} :
                LET S == {t \in InputRows : InputKey(t) = k}
                    O == {o \in OutputRows : OutputKey(o) = k}
                IN  /\ Cardinality(O) = 1
                    /\ \A o \in O :
                          /\ \A f \in Fields : Field(OutputRow(o), f) = Float(SumOf(S, f))
                          /\ Cardinality(S) = 1 => \A t \in S : OutputRow(o) = InputRow(t)

\* C19: combinePayloads([R, R]) has the dates, the row keys, the sources and the models
\* of combinePayloads([R]), and twice its totalTokens and totalCost.
C19_SelfMergeDoubles ==
    LET DatesOf(report) ==
            {report.contributions[d].date : d \in 1..Len(report.contributions)}
        KeysOf(report) ==
            UNION {{<<report.contributions[d].date>>
                        \o RowKey(report.contributions[d].sources[j]) :
                       j \in 1..Len(report.contributions[d].sources)} :
                      d \in 1..Len(report.contributions)}
        once == mergePrev.outcome.value
        twice == mergeOut.value
    IN  (/\ mergePrev.outcome.applied /\ mergePrev.outcome.threw = ""
         /\ Len(mergePrev.payloads) = 1
         /\ mergeIn = mergePrev.payloads \o mergePrev.payloads
         /\ mergeOut.applied) =>
           /\ mergeOut.threw = ""
           /\ DatesOf(twice) = DatesOf(once)
           /\ KeysOf(twice) = KeysOf(once)
           /\ Len(twice.contributions) = Len(once.contributions)
           /\ \A d \in 1..Len(once.contributions) :
                 Len(twice.contributions[d].sources) = Len(once.contributions[d].sources)
           /\ twice.summary.sources = once.summary.sources
           /\ twice.summary.models = once.summary.models
           /\ twice.summary.totalTokens = 2 * once.summary.totalTokens
           /\ twice.summary.totalCost = 2 * once.summary.totalCost

\* C19 witness: a report of two days has been merged with itself.
C19_Witness ==
    /\ mergePrev.outcome.applied /\ mergePrev.payloads = <<ReportC>>
    /\ mergeOut.applied /\ mergeOut.threw = ""
    /\ mergeIn = <<ReportC, ReportC>>
    /\ Len(mergeOut.value.contributions) = 2
    /\ mergeOut.value.summary.totalCost = 6
    /\ mergeOut.value.summary.totalTokens = 16

\* C20: in a report returned by combinePayloads the dates are strictly ascending, the
\* rows of each day ascend by (source, modelId, providerId) in string order (the order of
\* the code units, component by component), sources and models ascend without
\* duplicates, and dateRange is the first and the last date.
C20_OutputIsSorted ==
    LET KeyBefore(a, b) ==
            IF a.source # b.source THEN CodeUnitRank(a.source) < CodeUnitRank(b.source)
            ELSE IF a.modelId # b.modelId
                 THEN CodeUnitRank(a.modelId) < CodeUnitRank(b.modelId)
                 ELSE CodeUnitRank(a.providerId) < CodeUnitRank(b.providerId)
        Ascending(names) ==
            \A i \in 1..(Len(names) - 1) : CodeUnitRank(names[i]) < CodeUnitRank(names[i + 1])
        out == mergeOut.value
        days == mergeOut.value.contributions
    IN  (mergeOut.applied /\ mergeOut.threw = "") =>
            /\ \A d \in 1..(Len(days) - 1) : days[d].date < days[d + 1].date
            /\ \A d \in 1..Len(days) :
                  \A j \in 1..(Len(days[d].sources) - 1) :
                      KeyBefore(days[d].sources[j], days[d].sources[j + 1])
            /\ Ascending(out.summary.sources)
            /\ Ascending(out.summary.models)
            /\ out.meta.dateRange = [start |-> days[1].date, end |-> days[Len(days)].date]

\* C21: in a report returned by combinePayloads each day's tokenBreakdown, totals.cost
\* and totals.messages are the sums over its rows and totals.tokens is the sum of the
\* fields of the tokenBreakdown, summary.totalTokens and totalCost are the sums over the
\* days, maxCostInSingleDay is the greatest day cost, and activeDays = totalDays = the
\* number of distinct dates (of the output, and of the dated days of the input). A sum
\* is the Number additions of the items in the order of the report, starting from 0.
C21_TotalsAreSums ==
    LET out == mergeOut.value
        days == out.contributions
        Fields == {"input", "output", "cacheRead", "cacheWrite", "reasoning"}
        RECURSIVE Sum(_)
        Sum(items) ==
            IF items = <<>> THEN 0
            ELSE Float(Sum(SubSeq(items, 1, Len(items) - 1)) + items[Len(items)])
        InputDates ==
            UNION {{mergeIn[p].contributions[d].date : d \in 1..Len(mergeIn[p].contributions)} :
                      p \in 1..Len(mergeIn)} \ {NullDate}
    IN  (mergeOut.applied /\ mergeOut.threw = "") =>
           /\ \A d \in 1..Len(days) :
                 LET day == days[d]
                     rows == DOMAIN day.sources
                 IN  /\ \A f \in Fields :
                           day.tokenBreakdown[f] = Sum([j \in rows |-> day.sources[j].tokens[f]])
                     /\ day.totals.tokens =
                           Float(Float(Float(Float(day.tokenBreakdown.input
                                                       + day.tokenBreakdown.output)
                                                 + day.tokenBreakdown.cacheRead)
                                           + day.tokenBreakdown.cacheWrite)
                                     + day.tokenBreakdown.reasoning)
                     /\ day.totals.cost = Sum([j \in rows |-> day.sources[j].cost])
                     /\ day.totals.messages = Sum([j \in rows |-> day.sources[j].messages])
           /\ LET DayTokens(d) == days[d].totals.tokens
                  DayCost(d) == days[d].totals.cost
              IN  /\ out.summary.totalTokens = Sum([d \in DOMAIN days |-> DayTokens(d)])
                  /\ out.summary.totalCost = Sum([d \in DOMAIN days |-> DayCost(d)])
                  /\ \A d \in 1..Len(days) : DayCost(d) <= out.summary.maxCostInSingleDay
                  /\ \E d \in 1..Len(days) : DayCost(d) = out.summary.maxCostInSingleDay
           /\ out.summary.activeDays = out.summary.totalDays
           /\ out.summary.activeDays = Cardinality({days[d].date : d \in 1..Len(days)})
           /\ out.summary.activeDays = Cardinality(InputDates)

\* C21 witness: a merge of several reports returned two or more days, one of them with
\* two or more rows and the greatest cost.
C21_Witness ==
    /\ mergeOut.applied /\ mergeOut.threw = ""
    /\ Len(mergeIn) >= 2
    /\ Len(mergeOut.value.contributions) >= 2
    /\ \E d \in 1..Len(mergeOut.value.contributions) :
          /\ Len(mergeOut.value.contributions[d].sources) >= 2
          /\ mergeOut.value.contributions[d].totals.cost
                = mergeOut.value.summary.maxCostInSingleDay
          /\ mergeOut.value.summary.maxCostInSingleDay > 0

\* C22: the years of a report returned by combinePayloads have one entry for each
\* distinct first four characters of the dates of its days, in ascending year order;
\* totalTokens and totalCost of an entry are the sums over the days of that year (Number
\* additions in the order of the days) and its range is the least and the greatest date
\* of the year.
C22_YearSummaries ==
    LET out == mergeOut.value
        days == out.contributions
        years == out.years
        Prefix(date) == date \div 10000
        RECURSIVE Sum(_)
        Sum(items) ==
            IF items = <<>> THEN 0
            ELSE Float(Sum(SubSeq(items, 1, Len(items) - 1)) + items[Len(items)])
    IN  (mergeOut.applied /\ mergeOut.threw = "") =>
           /\ {years[i].year : i \in DOMAIN years} = {Prefix(days[d].date) : d \in DOMAIN days}
           /\ \A i \in DOMAIN years : \A k \in DOMAIN years : i < k => years[i].year < years[k].year
           /\ \A i \in DOMAIN years :
                 LET InYear(day) == Prefix(day.date) = years[i].year
                     ofYear == SelectSeq(days, InYear)
                     dates == {ofYear[d].date : d \in DOMAIN ofYear}
                 IN  /\ years[i].totalTokens = Sum([d \in DOMAIN ofYear |-> ofYear[d].totals.tokens])
                     /\ years[i].totalCost = Sum([d \in DOMAIN ofYear |-> ofYear[d].totals.cost])
                     /\ years[i].range.start \in dates
                     /\ years[i].range.end \in dates
                     /\ \A date \in dates :
                           years[i].range.start <= date /\ date <= years[i].range.end

\* C22 witness: a merge returned days of two years, two or more of them in one year.
C22_Witness ==
    /\ mergeOut.applied /\ mergeOut.threw = ""
    /\ Len(mergeOut.value.years) = 2
    /\ Len(mergeOut.value.contributions) >= 3
    /\ \E i \in DOMAIN mergeOut.value.years :
          mergeOut.value.years[i].range.start < mergeOut.value.years[i].range.end

C24_NoDayWithoutRows ==
    LET days == mergeOut.value.contributions
        DatesWithRows ==
            UNION {{mergeIn[p].contributions[d].date :
                       d \in {e \in DOMAIN mergeIn[p].contributions :
                                 mergeIn[p].contributions[e].sources # <<>>}} :
                      p \in DOMAIN mergeIn} \ {NullDate}
    IN  (mergeOut.applied /\ mergeOut.threw = "") =>
           /\ \A d \in DOMAIN days : days[d].sources # <<>>
           /\ mergeOut.value.summary.activeDays = Cardinality(DatesWithRows)

\* C25: the outcome of combinePayloads depends only on the dates of the days and on the
\* rows of the input: two lists whose reports have, position by position, the same dates
\* and the same rows give the same error, or the same contributions, summary and years.
C25_OnlyRowsAreRead ==
    LET before == mergePrev.payloads
        SameRows ==
            /\ Len(mergeIn) = Len(before)
            /\ \A p \in DOMAIN mergeIn :
                  /\ Len(mergeIn[p].contributions) = Len(before[p].contributions)
                  /\ \A d \in DOMAIN mergeIn[p].contributions :
                        /\ mergeIn[p].contributions[d].date = before[p].contributions[d].date
                        /\ mergeIn[p].contributions[d].sources
                              = before[p].contributions[d].sources
    IN  (mergePrev.outcome.applied /\ mergeOut.applied /\ SameRows) =>
           /\ mergeOut.threw = mergePrev.outcome.threw
           /\ mergeOut.value.contributions = mergePrev.outcome.value.contributions
           /\ mergeOut.value.summary = mergePrev.outcome.value.summary
           /\ mergeOut.value.years = mergePrev.outcome.value.years

\* C25 witness: combinePayloads has returned on a list of two or more reports and then
\* on the list with the meta, summary, years and day totals of a report changed.
C25_Witness ==
    /\ mergePrev.outcome.applied /\ mergePrev.outcome.threw = ""
    /\ mergeOut.applied /\ mergeOut.threw = ""
    /\ Len(mergeIn) >= 2
    /\ \E i \in DOMAIN mergeIn :
          /\ mergeIn = [mergePrev.payloads EXCEPT ![i] = Stale(mergePrev.payloads[i])]
          /\ mergeIn[i].contributions # <<>>
          /\ mergeIn[i].contributions # mergePrev.payloads[i].contributions
          /\ mergeIn[i].summary # mergePrev.payloads[i].summary

\* C26: in a report returned by combinePayloads the intensity of a day is 0 when its
\* cost <= 0 or maxCostInSingleDay <= 0, and otherwise 1, 2, 3 or 4 as the Number
\* cost / maxCostInSingleDay is below 0.25, below 0.5, below 0.75 or not, where
\* maxCostInSingleDay is the greatest cost of all days of the report; a day of the
\* greatest cost, if positive, has intensity 4.
C26_IntensityBuckets ==
    LET out == mergeOut.value
        days == out.contributions
        maxCost == out.summary.maxCostInSingleDay
        Bucket(cost) ==
            IF cost <= 0 \/ maxCost <= 0 THEN 0
            ELSE IF Divide(cost, maxCost) * 4 < RatioUnit THEN 1
            ELSE IF Divide(cost, maxCost) * 2 < RatioUnit THEN 2
            ELSE IF Divide(cost, maxCost) * 4 < RatioUnit * 3 THEN 3
            ELSE 4
    IN  (mergeOut.applied /\ mergeOut.threw = "") =>
           /\ \A d \in DOMAIN days : days[d].totals.cost <= maxCost
           /\ \A d \in DOMAIN days : days[d].intensity = Bucket(days[d].totals.cost)
           /\ \A d \in DOMAIN days :
                 (days[d].totals.cost = maxCost /\ maxCost > 0) => days[d].intensity = 4

\* C26 witness: a report was returned with days of intensity 2, 3 and 4, the day of the
\* greatest cost in the middle.
C26_Witness ==
    /\ mergeOut.applied /\ mergeOut.threw = ""
    /\ \E a, b, c \in DOMAIN mergeOut.value.contributions :
          /\ mergeOut.value.contributions[a].intensity = 2
          /\ mergeOut.value.contributions[b].intensity = 3
          /\ mergeOut.value.contributions[c].intensity = 4
          /\ b < c /\ c < a

\* ------------------------------------------------------------------------
\* properties of parseDurationMs and computeWaitWithJitterMs
\* ------------------------------------------------------------------------

\* C27: on a text that is decimal digits of a positive integer n followed by one of s, m,
\* h, d (around it white space, and the unit in either case, are accepted), parseDurationMs
\* returns n times 1000, 60000, 3600000, 86400000 (here in units of 1000 ms); on every
\* other text it throws: on n = 0, on a sign, on a decimal point, on a text without a
\* unit and on a text with another unit.
C27_ParseDuration ==
    (utilOut.applied /\ utilIn.fn = "parseDurationMs") =>
        LET text == utilIn.value
            Blank(c) == c = " "
            NotBlank(c) == c # " "
            stripped == SelectSeq(text, NotBlank)
            inner == IF stripped = <<>> THEN <<>>
                     ELSE LET first == CHOOSE i \in DOMAIN text :
                                          NotBlank(text[i]) /\ \A k \in 1..(i - 1) : Blank(text[k])
                              last == CHOOSE i \in DOMAIN text :
                                         NotBlank(text[i]) /\ \A k \in (i + 1)..Len(text) : Blank(text[k])
                          IN  SubSeq(text, first, last)
            unit == IF inner = <<>> THEN "" ELSE inner[Len(inner)]
            digits == IF inner = <<>> THEN <<>> ELSE SubSeq(inner, 1, Len(inner) - 1)
            AllDigits == digits # <<>> /\ \A i \in DOMAIN digits : digits[i] \in {"0", "1", "2"}
            RECURSIVE Decimal(_)
            Decimal(ds) ==
                IF ds = <<>> THEN 0
                ELSE 10 * Decimal(SubSeq(ds, 1, Len(ds) - 1))
                        + (CASE ds[Len(ds)] = "0" -> 0 [] ds[Len(ds)] = "1" -> 1
                             [] ds[Len(ds)] = "2" -> 2)
            factor == CASE unit \in {"s"} -> 1
                        [] unit \in {"m"} -> 60
                        [] unit \in {"h", "H"} -> 3600
                        [] unit \in {"d"} -> 86400
                        [] OTHER -> 0
        IN  IF AllDigits /\ factor > 0 /\ Decimal(digits) > 0
            THEN utilOut.threw = "" /\ utilOut.value = Decimal(digits) * factor
            ELSE utilOut.threw # ""

\* C27 witness: parseDurationMs has returned 12 hours for "12h".
C27_Witness ==
    /\ utilOut.applied
    /\ utilIn = [fn |-> "parseDurationMs", value |-> <<"1", "2", "h">>]
    /\ utilOut.threw = ""
    /\ utilOut.value = 12 * 3600

\* C28: computeWaitWithJitterMs throws when baseMs <= 0 or jitterMs < 0, returns baseMs
\* when jitterMs = 0, and otherwise returns w with baseMs <= w < baseMs + jitterMs.
C28_WaitWithJitter ==
    (utilOut.applied /\ utilIn.fn = "computeWaitWithJitterMs") =>
        IF utilIn.baseMs <= 0 \/ utilIn.jitterMs < 0 THEN utilOut.threw # ""
        ELSE /\ utilOut.threw = ""
             /\ utilIn.jitterMs = 0 => utilOut.value = utilIn.baseMs
             /\ utilIn.jitterMs > 0 =>
                   /\ utilIn.baseMs <= utilOut.value
                   /\ utilOut.value < utilIn.baseMs + utilIn.jitterMs

\* C28 witness: with the greatest value of random() the wait is the last below
\* baseMs + jitterMs.
C28_Witness ==
    /\ utilOut.applied /\ utilIn.fn = "computeWaitWithJitterMs"
    /\ utilIn.random = RandomSteps - 1
    /\ utilIn.jitterMs >= 2
    /\ utilOut.threw = ""
    /\ utilOut.value = utilIn.baseMs + utilIn.jitterMs - 1

\* ---------------------------------------------------------------------------------------
\* properties of the end of runServer
\* ---------------------------------------------------------------------------------------

\* C29: once the termination signal has been taken no daily-submit attempt starts, and
\* runServer returns only when no request and no submission attempt is outstanding
C29_DrainBeforeStopped ==
    [][/\ lifecycle \in {"draining", "stopped"} =>
            \A s \in Slots : attempts[s].pc = "idle" => attempts'[s].pc = "idle"
       /\ lifecycle' = "stopped" =>
            /\ \A h \in Handlers : requests'[h].pc = "idle"
            /\ \A s \in Slots : attempts'[s].pc = "idle"]_vars

\* ---------------------------------------------------------------------------------------
\* properties of readClientCaptureFiles
\* ---------------------------------------------------------------------------------------

\* the UTF-16 code units of the characters of the client ids of the model
IdCodeUnit(c) ==
    CASE c = "-" -> 45 [] c = "." -> 46 [] c = "0" -> 48
      [] c = "_" -> 95 [] c = "a" -> 97 [] OTHER -> 98

\* a comes before b in the order of the code units
RECURSIVE IdAscending(_, _)
IdAscending(a, b) ==
    IF b = <<>> THEN FALSE
    ELSE IF a = <<>> THEN TRUE
    ELSE IF Head(a) # Head(b) THEN IdCodeUnit(Head(a)) < IdCodeUnit(Head(b))
    ELSE IdAscending(Tail(a), Tail(b))

\* the files of the clients directory that hold the whole text of a record with a
\* clientId and a payload
UsableFiles ==
    {n \in DOMAIN dir :
        /\ n.ext = ".json" /\ n.tmp = -1
        /\ inodes[dir[n]] # <<>>
        /\ Len(inodes[dir[n]]) = Len(JSONstringify(inodes[dir[n]][1].of))
        /\ inodes[dir[n]][1].of.clientId # <<>>
        /\ inodes[dir[n]][1].of.payload.t = "object"}

\* the listing holds the record of every usable file once, and nothing else
C30_ListsUsableFiles ==
    LET listed == utilOut.value
    IN  /\ Len(listed) = Cardinality(UsableFiles)
        /\ {listed[i] : i \in 1..Len(listed)} = {inodes[dir[n]][1].of : n \in UsableFiles}

\* the listing is in ascending order of the client ids
C30_ListingAscends ==
    LET listed == utilOut.value
    IN  \A i \in 1..(Len(listed) - 1) : IdAscending(listed[i].clientId, listed[i + 1].clientId)

\* the payloads of the usable files are merged whatever else the directory holds
C30_OthersAreMerged ==
    LET listed == utilOut.value
    IN  /\ utilOut.threw = ""
        /\ Len(mergeIn) = Len(listed)
        /\ \A i \in 1..Len(listed) : mergeIn[i] = AsReport(listed[i].payload)
        /\ (\E i \in 1..Len(mergeIn) : mergeIn[i].contributions # <<>>) =>
              /\ mergeOut.threw = ""
              /\ mergeOut.value.contributions # <<>>

\* C30: readClientCaptureFiles returns exactly the stored snapshots whose file parses and
\* carries a clientId and a payload, in ascending clientId order, and a file that is
\* skipped does not keep the others from being listed and merged
C30_ListingOfSnapshots ==
    utilOut.applied => C30_ListsUsableFiles /\ C30_ListingAscends /\ C30_OthersAreMerged

\* ---------------------------------------------------------------------------------------
\* properties of parseServerModeArgs and parseClientModeArgs
\* ---------------------------------------------------------------------------------------

\* C31: the options that parseServerModeArgs returns have noAuth exactly when authToken is
\* null; with authorization on the token is a non-empty string, the generated one (flagged
\* by authTokenGenerated) exactly when neither --auth-token nor the environment gave one;
\* parseClientModeArgs throws when authorization is on and no token is given; and a server
\* run with the returned options answers 401 to a request without a token on a guarded
\* route unless --no-auth was among its arguments
C31_AuthOptions ==
    LET argv == utilIn.argv
        Has(flag) == \E k \in 1..Len(argv) : argv[k] = flag
        given == {argv[k] : k \in 1..Len(argv)} \cup {utilIn.env}
        out == utilOut.value
    IN  /\ (utilIn.fn = "parseServerModeArgs" /\ utilOut.applied /\ utilOut.threw = "") =>
              /\ out.noAuth <=> out.authToken.t = "null"
              /\ ~out.noAuth => /\ out.authToken.t = "string"
                                /\ out.authToken.v # ""
                                /\ out.authTokenGenerated <=> out.authToken.v \notin given
                                /\ (~Has("--auth-token") /\ Falsy(utilIn.env)) =>
                                      out.authTokenGenerated
                                /\ ~Falsy(utilIn.env) => ~out.authTokenGenerated
              /\ out.noAuth => ~out.authTokenGenerated
        /\ (utilIn.fn = "parseClientModeArgs" /\ utilOut.applied) =>
              /\ (~Has("--no-auth") /\ ~Has("--auth-token") /\ Falsy(utilIn.env)) =>
                    utilOut.threw # ""
              /\ utilOut.threw = "" => (out.noAuth <=> out.authToken.t = "null")
              /\ (utilOut.threw = "" /\ ~out.noAuth) => out.authToken.v # ""
        /\ (/\ utilIn.fn = "parseServerModeArgs"
            /\ running
            /\ arrived.route = "GET /status"
            /\ arrived.header = NoHeader \/ arrived.header.rest = ""
            /\ ~Has("--no-auth")) => sent.status = 401

\* a server started without a token and without --no-auth has generated one and has
\* answered 401 to a request that carries no Authorization header
C31_Witness ==
    /\ utilIn = [fn |-> "parseServerModeArgs", argv |-> <<"--server">>, env |-> Undefined]
    /\ utilOut.applied
    /\ utilOut.value.authTokenGenerated
    /\ options.authToken = GeneratedToken
    /\ running
    /\ arrived.route = "GET /status"
    /\ arrived.header = NoHeader
    /\ sent.status = 401

\* ---------------------------------------------------------------------------------------
\* properties of runClient
\* ---------------------------------------------------------------------------------------

\* C32: a failed capture or upload does not end the loop of the client; the next cycle
\* starts after a wait of at least the interval and less than the interval plus the
\* jitter; and with once exactly one cycle is made, whether it succeeds or not
C32_ClientLoop ==
    [][/\ (client'.pc \in {"returned", "threw"} /\ client.pc \notin {"off", "returned", "threw"}) =>
            client.options.once \/ client.shouldStop
       /\ client'.cycles = client.cycles + 1 /\ client.cycles > 0 =>
            /\ client.slept >= client.options.intervalMs
            /\ client.slept < client.options.intervalMs + client.options.jitterMs
       /\ client'.options.once =>
            /\ client'.cycles <= 1
            /\ client'.pc = "returned" => client'.cycles = 1]_vars

\* ---------------------------------------------------------------------------------------
\* properties of combinePayloads on reports that it returned
\* ---------------------------------------------------------------------------------------

\* C33: the merge of a list that starts with the merge of some reports has the same
\* contributions, summary and years as the merge of those reports followed by the rest
\* of the list, and the merge of a returned report alone is that report
C33_PartialMerges ==
    LET Same(a, b) ==
            /\ b.threw = ""
            /\ a.value.contributions = b.value.contributions
            /\ a.value.summary = b.value.summary
            /\ a.value.years = b.value.years
    IN  /\ (/\ mergePrev.nested
            /\ mergeIn = <<mergePrev.outcome.value>>
            /\ mergeOut.applied) => Same(mergePrev.outcome, mergeOut)
        /\ (/\ mergePrev.parts # <<>>
            /\ mergeIn = mergePrev.parts \o Tail(mergePrev.payloads)
            /\ mergeOut.applied) => Same(mergePrev.outcome, mergeOut)

\* the merge of ReportA and ReportC followed by ReportB was compared with the merge of
\* the three
C33_Witness ==
    /\ mergePrev.parts = <<ReportA, ReportC>>
    /\ Len(mergePrev.payloads) = 2
    /\ mergePrev.payloads[2] = ReportB
    /\ mergeIn = <<ReportA, ReportC, ReportB>>
    /\ mergeOut.applied
    /\ mergeOut.threw = ""

\* C34: a returned report has no date that no day of the input carries, and it has every
\* date for which some report of the input has a row
C34_DatesOfOutput ==
    LET DaysOf(report) == {report.contributions[d] : d \in 1..Len(report.contributions)}
        days == UNION {DaysOf(mergeIn[p]) : p \in 1..Len(mergeIn)}
        given == {day.date : day \in days} \ {NullDate}
        withRows == {day.date : day \in {x \in days : x.sources # <<>>}} \ {NullDate}
        returned == {day.date : day \in DaysOf(mergeOut.value)}
    IN  (mergeOut.applied /\ mergeOut.threw = "") =>
            /\ returned \subseteq given
            /\ withRows \subseteq returned

\* reports with days on three dates, one of them on a shared date, were merged
C34_Witness ==
    /\ mergeIn = <<ReportA, ReportD, ReportC>>
    /\ mergeOut.applied
    /\ Len(mergeOut.value.contributions) = 3

\* C35: from an empty data directory on, the date that state.json holds as lastSubmittedDate
\* is the date of a record in submissions/, and state.json takes a new date only when the
\* record of that date is there
C35_RecordBeforeState ==
    /\ [](PersistedDate(stateFile) # NullDate => PersistedDate(stateFile) \in DOMAIN submissions)
    /\ [][(PersistedDate(stateFile') # PersistedDate(stateFile)) =>
              (PersistedDate(stateFile') \in DOMAIN submissions)]_vars

\* an attempt wrote its record, failed to write the state and wrote it in its catch block:
\* state.json holds the date of the attempt together with the error
C35_Witness ==
    /\ PersistedDate(stateFile) = utcDateString(clock)
    /\ failedDate = utcDateString(clock)
    /\ stateFile[1].lastSubmitError # NullError
    /\ utcDateString(clock) \in DOMAIN submissions

C37_AttemptEnds ==
    /\ \A s \in Slots :
          (attempts[s].pc # "idle") ~> (attempts[s].pc = "idle" /\ ~submitInProgress)
    /\ [](submitInProgress => \E s \in Slots : attempts[s].pc # "idle")

\* an attempt failed, failed again to write the error to state.json, and has ended
C37_Witness ==
    /\ running
    /\ failedDate # NullDate
    /\ state.lastSubmitError # NullError
    /\ stateFile = <<>>
    /\ ~submitInProgress
    /\ \A s \in Slots : attempts[s].pc = "idle"

\* C38: uploads handled at the same time, their writes interleaved in any way: an upload
\* whose own calls of the file system all succeed is answered 202, and once the handlers
\* have ended every client file holds the whole record of one valid upload
C38_ConcurrentUploads ==
    /\ [][\A h \in Handlers :
             (requests[h].pc = "rename" /\ requests'[h].pc = "idle" /\ sent' # NotSent)
             => (sent'.status = 202 \/ sent'.error = "EIO")]_vars
    /\ []((\A h \in Handlers : requests[h].pc = "idle") =>
             \A n \in ClientNames :
                /\ WholeText(ReadText(n))
                /\ \E b \in ValidBodies, t \in 0..MaxUploadTime :
                      JSONparse(ReadText(n)) =
                          CaptureRecord(parseUpload(Body(b).json, toISOString(t)), toISOString(t)))

\* C39: a step that stores an upload leaves the SubmissionState (in memory and in
\* state.json) and the submission records as they are; a step of a daily-submit attempt
\* leaves the client snapshots as they are, and the only record it writes is the one of the
\* UTC date on which the attempt started
C39_UploadsAndAttemptsApart ==
    [][/\ (clientFiles' # clientFiles) =>
              (state' = state /\ stateFile' = stateFile /\ submissions' = submissions)
       /\ (running /\ running' /\ attempts' # attempts) =>
              /\ clientFiles' = clientFiles
              /\ DOMAIN submissions \subseteq DOMAIN submissions'
              /\ \A d \in DOMAIN submissions' :
                    (d \notin DOMAIN submissions \/ submissions'[d] # submissions[d]) =>
                        \E s \in Slots : /\ attempts[s].pc = "record"
                                         /\ attempts'[s].pc = "state"
                                         /\ d = utcDateString(attempts[s].now)]_vars

\* an upload was stored while an attempt was in flight, and the attempt has written its
\* record on the day after its start: the record holds what was listed at the start
C39_Witness ==
    \E s \in Slots :
        /\ attempts[s].pc = "state"
        /\ utcDateString(attempts[s].now) \in DOMAIN submissions
        /\ utcDateString(attempts[s].now) # utcDateString(clock)
        /\ 1 \in DOMAIN clientFiles
        /\ clientFiles[1].payload = ReportNone

====
